---------------------------- MODULE Spec2Model ----------------------------
(***************************************************************************)
(* A model of the terrarium (catbox) IRC server core: the registration of  *)
(* a local connection as a user or as a TS6 server peer (local_client.go)  *)
(* and the server-to-server command handlers (local_server.go).            *)
(*                                                                         *)
(* The dispatcher is single threaded: it takes one event and runs its      *)
(* handler to completion.  Every handler is therefore written as an        *)
(* operator from a world (the record W of all the dispatcher's tables) and *)
(* the event's inputs to the next world, and every action applies one      *)
(* handler to an input drawn from a small set.                             *)
(*                                                                         *)
(* Pointers of the Go code that can outlive their table entry (to a Server *)
(* or a Channel) are object ids into a heap (ServerObjs, ChanObjs); the    *)
(* tables (Servers, Channels) map a key to an object id.                   *)
(***************************************************************************)
EXTENDS Integers, Sequences, FiniteSets, TLC

VARIABLES
  LocalClients,  \* Catbox.LocalClients: connection id -> LocalClient
  LocalUsers,    \* Catbox.LocalUsers:   connection id -> UID of its User
  LocalServers,  \* Catbox.LocalServers: connection id -> LocalServer
  Servers,       \* Catbox.Servers:      SID -> Server pointer (object id)
  ServerObjs,    \* the Server objects some pointer still reaches
  Users,         \* Catbox.Users:        UID -> User
  Nicks,         \* Catbox.Nicks:        canonical nick -> UID
  Opers,         \* Catbox.Opers:        the UIDs of the operators
  Channels,      \* Catbox.Channels:     channel name -> Channel pointer
  ChanObjs,      \* the Channel objects some pointer still reaches
  KLines,        \* Catbox.KLines:       the bans, in the order they were added
  closed,        \* per connection id, how often its WriteChan was closed
  nextID,        \* the id the next accepted connection gets
  out,           \* the messages the last event's handler queued, in order
  last,          \* the last event the dispatcher handled (history)
  accepted,      \* per connection, the messages accepted from it (history)
  WriteChan,     \* per connection id, the messages its write channel buffers
  SendQueueExceeded, \* per connection id, LocalClient.SendQueueExceeded
  remote,        \* the server at the other end of link 1 where it is part of
                 \* the model: its world and the messages under way
  ShutdownChan,  \* Catbox.ShutdownChan: "open", or "closed" once we shut down
  ToServerChan,  \* the events the readers and writers sent to the dispatcher
  Conn,          \* per connection id, its socket: "open" or "closed"
  readLoop,      \* per connection id, where its reader is
  writeLoop,     \* per connection id, where its writer is
  packing        \* the member loop of sendBurst where it is followed by itself

vars == << LocalClients, LocalUsers, LocalServers, Servers, ServerObjs, Users,
           Nicks, Opers, Channels, ChanObjs, KLines, closed, nextID, out, last,
           accepted, WriteChan, SendQueueExceeded, remote, ShutdownChan,
           ToServerChan, Conn, readLoop, writeLoop, packing >>

\* The state of the readers and writers and what they share.
ioVars == << ShutdownChan, ToServerChan, Conn, readLoop, writeLoop, packing >>

\* The dispatcher's world as one record.
W ==
  [ LocalClients |-> LocalClients, LocalUsers |-> LocalUsers,
    LocalServers |-> LocalServers, Servers |-> Servers,
    ServerObjs |-> ServerObjs, Users |-> Users, Nicks |-> Nicks,
    Opers |-> Opers, Channels |-> Channels, ChanObjs |-> ChanObjs,
    KLines |-> KLines,
    closed |-> closed, nextID |-> nextID, out |-> out, last |-> last,
    accepted |-> accepted ]

-----------------------------------------------------------------------------
(* Bounds of the model. *)

\* Connections accepted in one run of the registration specification.
MaxConns == 2

\* Config.MaxNickLength as configured in the model (max-nick-length).
MaxNickLength == 2

(* Program constants. *)

MaxAllowedPreRegisterMessageCount == 10
maxUsernameLength == 10
MaxClockSkew == 60

-----------------------------------------------------------------------------
(* Generic helpers on Go maps (functions with a finite domain). *)

Remove(f, k) == [x \in DOMAIN f \ {k} |-> f[x]]

Put(f, k, v) == (k :> v) @@ f

Has(f, k) == k \in DOMAIN f

EmptyMap == [x \in {} |-> 0]

Min(S) == CHOOSE x \in S : \A y \in S : x <= y

SeqToSet(s) == {s[i] : i \in DOMAIN s}

\* s[0:n] of Go, for n <= len(s); the callers guard with len(s) > n.
Truncate(s, n) == IF Len(s) > n THEN SubSeq(s, 1, n) ELSE s

-----------------------------------------------------------------------------
(* Configuration (Catbox.Config). *)

\* Config.TS6SID and Config.ServerName of this server.
OurSID == "001"
OurName == "irc1"

\* Config.Servers: the configured peers, name -> password.
ConfigServers == [n \in {"irc2", "irc3"} |-> IF n = "irc2" THEN "pw2" ELSE "pw3"]

-----------------------------------------------------------------------------
(* Characters.  Nicks and usernames are sequences of one-character strings;  *)
(* the backquote is written "bq".                                            *)

Digits == {"0", "1", "2", "3", "4", "5", "6", "7", "8", "9"}
Upper == {"A", "B", "C", "D", "E", "F", "G", "H", "I", "J", "K", "L", "M",
          "N", "O", "P", "Q", "R", "S", "T", "U", "V", "W", "X", "Y", "Z"}
Lower == {"a", "b", "c", "d", "e", "f", "g", "h", "i", "j", "k", "l", "m",
          "n", "o", "p", "q", "r", "s", "t", "u", "v", "w", "x", "y", "z"}

\* strings.ToLower on one character.
ToLowerChar(ch) ==
  CASE ch = "A" -> "a" [] ch = "B" -> "b" [] ch = "C" -> "c" [] ch = "D" -> "d"
    [] ch = "E" -> "e" [] ch = "F" -> "f" [] ch = "G" -> "g" [] ch = "H" -> "h"
    [] ch = "I" -> "i" [] ch = "J" -> "j" [] ch = "K" -> "k" [] ch = "L" -> "l"
    [] ch = "M" -> "m" [] ch = "N" -> "n" [] ch = "O" -> "o" [] ch = "P" -> "p"
    [] ch = "Q" -> "q" [] ch = "R" -> "r" [] ch = "S" -> "s" [] ch = "T" -> "t"
    [] ch = "U" -> "u" [] ch = "V" -> "v" [] ch = "W" -> "w" [] ch = "X" -> "x"
    [] ch = "Y" -> "y" [] ch = "Z" -> "z" [] OTHER -> ch

\* canonicalizeNick: lowercase, then [ ] \ become { } |.
canonicalizeNickChar(ch) ==
  LET b == ToLowerChar(ch) IN
  CASE b = "[" -> "{" [] b = "]" -> "}" [] b = "\\" -> "|" [] OTHER -> b

canonicalizeNick(n) == [i \in DOMAIN n |-> canonicalizeNickChar(n[i])]

NickSpecials == {"[", "\\", "]", "^", "_", "bq", "{", "|", "}"}

\* isValidNick(maxLen, n)
isValidNick(maxLen, n) ==
  /\ Len(n) > 0
  /\ Len(n) <= maxLen
  /\ n[1] /= "-"
  /\ n[1] \notin Digits
  /\ \A i \in DOMAIN n :
       n[i] \in {"-"} \cup Digits \cup Upper \cup Lower \cup NickSpecials

UserFirst == Digits \cup Upper \cup Lower \cup {"[", "\\", "]", "^", "{", "|", "}", "~"}
UserRest == Digits \cup Upper \cup Lower \cup
            {"$", "-", "[", "\\", "]", "^", "_", "bq", "{", "|", "}", "~"}

\* isValidUser(u): at most two dots, none of them first or last.
isValidUser(u) ==
  /\ Len(u) > 0
  /\ Len(u) <= maxUsernameLength
  /\ u[Len(u)] /= "."
  /\ u[1] \in UserFirst
  /\ \A i \in 2..Len(u) : u[i] = "." \/ u[i] \in UserRest
  /\ Cardinality({i \in 2..Len(u) : u[i] = "."}) <= 2

\* isValidSID: ^[0-9][0-9A-Z]{2}$ over SIDs written as strings; the SIDs the
\* inputs of the model use are listed with whether they match.
ValidSIDs == {"001", "002", "003", "004", "005"}
isValidSID(s) == s \in ValidSIDs


\* isNumericCommand: every character is a digit; over the commands of the model.
Numerics == {"001", "002", "003", "004", "401", "402", "403", "411", "412",
             "421", "431", "432", "433", "451", "461", "465"}
isNumericCommand(command) == command \in Numerics

\* A set of connection ids as a sequence (ascending): the order a range over a
\* Go map happens to take; only the order per destination is meaningful.
RECURSIVE IdSeq(_)
IdSeq(S) == IF S = {} THEN << >> ELSE << Min(S) >> \o IdSeq(S \ {Min(S)})

-----------------------------------------------------------------------------
(* Messages and queues. *)

\* Decimal strings and their values: strconv.ParseInt and fmt.Sprintf("%d")
\* over the numbers of the model.  "06" parses to 6 and is not canonical; a
\* string that is not listed ("x", "TS", a name) fails to parse.
NumTable ==
  { << "0", 0 >>, << "1", 1 >>, << "2", 2 >>, << "3", 3 >>, << "4", 4 >>,
    << "5", 5 >>, << "6", 6 >>, << "7", 7 >>, << "8", 8 >>, << "9", 9 >>,
    << "39", 39 >>, << "40", 40 >>, << "100", 100 >>, << "101", 101 >>,
    << "160", 160 >>, << "161", 161 >>, << "06", 6 >> }
ParsesAsInt(p) == \E e \in NumTable : e[1] = p
ParseInt(p) == (CHOOSE e \in NumTable : e[1] = p)[2]
FormatInt(n) == (CHOOSE e \in NumTable : e[2] = n /\ e[1] /= "06")[1]

Msg(prefix, command, params) ==
  [Prefix |-> prefix, Command |-> command, Params |-> params]

\* LocalClient.maybeQueueMessage where the writer keeps up with the dispatcher
\* (the queue holds 32768 messages): the message is queued on session c.  The
\* bounded queue itself is the subject of SpecQueue.
maybeQueueMessage(w, c, m) == [w EXCEPT !.out = Append(@, [to |-> c, msg |-> m])]

\* Queue the same message on every session of a sequence of ids.
RECURSIVE QueueAll(_, _, _)
QueueAll(w, ids, m) ==
  IF ids = << >> THEN w
  ELSE QueueAll(maybeQueueMessage(w, Head(ids), m), Tail(ids), m)

\* The messages of the last step queued on session c, in order.
OutTo(w, c) == SelectSeq(w.out, LAMBDA e : e.to = c)
OutCommands(w, c) == [i \in DOMAIN OutTo(w, c) |-> OutTo(w, c)[i].msg.Command]

-----------------------------------------------------------------------------
(* LocalClient: a connection before it registers (local_client.go). *)

NewLocalClient(id) ==
  [ PreRegDisplayNick |-> << >>, PreRegUser |-> << >>,
    PreRegPass |-> "", PreRegTS6SID |-> "", PreRegCapabs |-> {},
    PreRegServerName |-> "", PreRegServerDesc |-> "",
    GotPASS |-> FALSE, GotCAPAB |-> FALSE, GotSERVER |-> FALSE,
    SentSERVER |-> FALSE, SentSVINFO |-> FALSE,
    PreRegisterMessageCount |-> 0 ]

\* A registration message that its handler accepted is recorded in the
\* history of the session, in place of an earlier one of the same command.
Accept(w, c, m) ==
  [w EXCEPT !.accepted[c] =
     Append(SelectSeq(@, LAMBDA a : a.Command /= m.Command), m)]

\* LocalClient.messageFromServer
LocalClient_messageFromServer(w, c, command, params) ==
  LET lc == w.LocalClients[c]
      nick == IF Len(lc.PreRegDisplayNick) > 0 THEN lc.PreRegDisplayNick ELSE << "*" >>
      ps == IF isNumericCommand(command) THEN << nick >> \o params ELSE params
  IN  maybeQueueMessage(w, c, Msg(OurName, command, ps))

\* LocalClient.quit without the delete of its last line.
LocalClient_quitKeepsClient(w, c, msg) ==
  IF ~Has(w.LocalClients, c) THEN w
  ELSE LET w1 == LocalClient_messageFromServer(w, c, "ERROR", << msg >>)
       IN  [w1 EXCEPT !.closed[c] = @ + 1]

\* LocalClient.quit
LocalClient_quit(w, c, msg) ==
  IF ~Has(w.LocalClients, c) THEN w
  ELSE LET w1 == LocalClient_messageFromServer(w, c, "ERROR", << msg >>)
       IN  [w1 EXCEPT !.closed[c] = @ + 1,
                      !.LocalClients = Remove(@, c)]

\* LocalClient.sendSVINFO
sendSVINFO(w, c, now) ==
  LET w1 == maybeQueueMessage(w, c, Msg("", "SVINFO", << "6", "6", "0", FormatInt(now) >>))
  IN  [w1 EXCEPT !.LocalClients[c].SentSVINFO = TRUE]

\* LocalClient.sendServerIntro
sendServerIntro(w, c, pass) ==
  LET w1 == maybeQueueMessage(w, c, Msg("", "PASS", << pass, "TS", "6", OurSID >>))
      w2 == maybeQueueMessage(w1, c, Msg("", "CAPAB", << << "QS", "ENCAP", "TB" >> >>))
      w3 == maybeQueueMessage(w2, c, Msg("", "SERVER", << OurName, "1", "info" >>))
  IN  [w3 EXCEPT !.LocalClients[c].SentSERVER = TRUE]

\* User.modesString: a plus sign and the modes, in the order the map gives.
modesString(u) ==
  LET RECURSIVE str(_)
      str(S) == IF S = {} THEN << >>
                ELSE LET x == CHOOSE y \in S : TRUE IN << x >> \o str(S \ {x})
  IN  << "+" >> \o str(u.Modes)

\* The UID message that introduces user u (of uid) to a peer.
UIDMessage(prefix, uid, u) ==
  Msg(prefix, "UID", << u.DisplayNick, FormatInt(u.HopCount + 1), FormatInt(u.NickTS),
                        modesString(u),
                        u.Username, u.Hostname, "ip", uid, "realname" >>)

\* Catbox.noticeOpers: a notice to every local operator.
noticeOpers(w, text) ==
  QueueAll(w, IdSeq({x \in DOMAIN w.LocalUsers : w.LocalUsers[x] \in w.Opers}),
           Msg(OurName, "NOTICE", << text >>))

\* The user rules of the configuration: a spoof for the users whose name
\* ends in w.
UserConfigs ==
  << [ UserMask |-> << "*", "w" >>, HostMask |-> << "*" >>,
       Spoof |-> "spoof", FloodExempt |-> FALSE ] >>

\* The characters of the host names of the model.
HostChars(h) ==
  IF h = "host" THEN << "h", "o", "s", "t" >>
  ELSE IF h = "spoof" THEN << "s", "p", "o", "o", "f" >>
  ELSE << h >>

\* The regular expression maskToRegex makes of a mask, matched at the start
\* of a text: a star stands for any characters, a question mark for one,
\* every other character for itself.
RECURSIVE MatchesAtStart(_, _)
MatchesAtStart(mask, s) ==
  IF mask = << >> THEN TRUE
  ELSE IF Head(mask) = "*"
  THEN \E k \in 0..Len(s) : MatchesAtStart(Tail(mask), SubSeq(s, k + 1, Len(s)))
  ELSE /\ s /= << >>
       /\ Head(mask) = "?" \/ Head(mask) = Head(s)
       /\ MatchesAtStart(Tail(mask), Tail(s))

\* Regexp.MatchString on the expression of maskToRegex: the expression has
\* no anchors, so it matches when some part of the text matches.
MatchString(mask, s) ==
  \E k \in 0..Len(s) : MatchesAtStart(mask, SubSeq(s, k + 1, Len(s)))

\* User.matchesMask
matchesMask(u, userMask, hostMask) ==
  /\ MatchString(userMask, u.Username)
  /\ MatchString(hostMask, HostChars(u.Hostname))

\* The characters of makeTS6ID: the digits 0 to 25 are A to Z, the digits 26
\* to 35 are 0 to 9.
TS6Letters ==
  << "A", "B", "C", "D", "E", "F", "G", "H", "I", "J", "K", "L", "M",
     "N", "O", "P", "Q", "R", "S", "T", "U", "V", "W", "X", "Y", "Z" >>
TS6Digits == << "0", "1", "2", "3", "4", "5", "6", "7", "8", "9" >>

\* The number of TS6 IDs: 26*36^5.
TS6IDLimit == 1572120576

\* makeTS6ID, the loop over the positions 5 down to 0 of the byte array (the
\* positions 6 down to 1 here): a remainder is written while n is 36 or more,
\* and n itself at the position at which it is less than 36.
RECURSIVE TS6IDBytes(_, _, _)
TS6IDBytes(ts6id, pos, n) ==
  LET char(d) == IF d >= 26 THEN TS6Digits[d - 26 + 1] ELSE TS6Letters[d + 1]
  IN  IF pos < 0 THEN ts6id
      ELSE IF n >= 36
      THEN TS6IDBytes([ts6id EXCEPT ![pos + 1] = char(n % 36)], pos - 1, n \div 36)
      ELSE [ts6id EXCEPT ![pos + 1] = char(n)]

\* makeTS6ID that takes the id 26*36^5 too.
makeTS6IDUpToLimit(id) ==
  IF id > TS6IDLimit THEN [id |-> << >>, err |-> TRUE]
  ELSE [id |-> TS6IDBytes(<< "A", "A", "A", "A", "A", "A" >>, 5, id), err |-> FALSE]

\* makeTS6ID: the ID as its six characters, or the error.
makeTS6ID(id) ==
  IF id >= TS6IDLimit THEN [id |-> << >>, err |-> TRUE]
  ELSE [id |-> TS6IDBytes(<< "A", "A", "A", "A", "A", "A" >>, 5, id), err |-> FALSE]

\* The string of a sequence of characters.
RECURSIVE StringOf(_)
StringOf(chars) == IF chars = << >> THEN "" ELSE Head(chars) \o StringOf(Tail(chars))

\* LocalUser.makeTS6UID: our SID and the ID of the connection id.
makeTS6UID(id) == OurSID \o StringOf(makeTS6ID(id).id)

\* The UIDs of the first connection ids.
OurUIDs == << makeTS6UID(1), makeTS6UID(2), makeTS6UID(3), makeTS6UID(4) >>

\* log.Fatal: the process ends, and with it every table and session.
Exit(w, c) ==
  [w EXCEPT !.LocalClients = EmptyMap, !.LocalUsers = EmptyMap,
            !.LocalServers = EmptyMap, !.Servers = EmptyMap, !.ServerObjs = EmptyMap,
            !.Users = EmptyMap, !.Nicks = EmptyMap, !.Opers = {},
            !.Channels = EmptyMap, !.ChanObjs = EmptyMap, !.KLines = << >>,
            !.out = << >>, !.last = [c |-> c, m |-> Msg("", "exit", << >>)]]

\* The nick as it was typed: no canonical form.
RegisterNickKeyAsTyped(nick) == nick

\* The nick the registration is checked against.
RegisterNickKey(nick) == canonicalizeNick(nick)

\* registerUser that looks for a ban of the user as it was before the spoof.
registerUserBanBeforeSpoof(w, c, now) ==
  LET lc == w.LocalClients[c] IN
  IF Has(w.Nicks, RegisterNickKey(lc.PreRegDisplayNick))
  THEN LocalClient_messageFromServer(w, c, "433",
         << lc.PreRegDisplayNick, "Nickname is already in use" >>)
  ELSE
    LET uid == makeTS6UID(c)
        u0 == [ DisplayNick |-> lc.PreRegDisplayNick, HopCount |-> 0,
                NickTS |-> now, Modes |-> {"i"}, Username |-> lc.PreRegUser,
                Hostname |-> "host", Channels |-> EmptyMap, Local |-> c,
                ClosestServer |-> 0, Server |-> 0, AwayMessage |-> << >> ]
        \* The first user rule that matches may give a spoof.
        rules == SelectSeq(UserConfigs,
                   LAMBDA r : matchesMask(u0, r.UserMask, r.HostMask))
        spoofed == rules /= << >> /\ rules[1].Spoof /= ""
        u == IF spoofed THEN [u0 EXCEPT !.Hostname = rules[1].Spoof] ELSE u0
        wr == IF spoofed
              THEN maybeQueueMessage(w, c, Msg(OurName, "NOTICE",
                     << u.DisplayNick, "Spoofing your hostname" >>))
              ELSE w
        \* The bans that match the user, after the spoof.
        klines == SelectSeq(w.KLines,
                    LAMBDA k : matchesMask(u0, k.UserMask, k.HostMask))
    IN
    IF klines /= << >>
    THEN noticeOpers(
           LocalClient_quit(
             maybeQueueMessage(wr, c, Msg(OurName, "465",
               << u.DisplayNick, "You are banned from this server" >>)),
             c, << "Connection closed", klines[1].Reason >>),
           "Rejecting user registration")
    ELSE IF makeTS6ID(c).err THEN Exit(w, c)
    ELSE
    LET w1 == [wr EXCEPT !.LocalClients = Remove(@, c),
                        !.LocalUsers = Put(@, c, uid),
                        !.Nicks = Put(@, canonicalizeNick(u.DisplayNick), uid),
                        !.Users = Put(@, uid, u)]
        w2 == maybeQueueMessage(w1, c, Msg(OurName, "001", << u.DisplayNick, "Welcome" >>))
        w3 == maybeQueueMessage(w2, c, Msg(OurName, "002", << u.DisplayNick, "Your host" >>))
        w4 == maybeQueueMessage(w3, c, Msg(OurName, "003", << u.DisplayNick, "Created" >>))
        w5 == maybeQueueMessage(w4, c, Msg(OurName, "004", << u.DisplayNick, OurName >>))
        w6 == maybeQueueMessage(w5, c, Msg(u.DisplayNick, "MODE", << u.DisplayNick, "+i" >>))
        \* Tell linked servers: UID, then CLICONN, to each.
        tell[i \in 0..Cardinality(DOMAIN w.LocalServers)] ==
          IF i = 0 THEN w6
          ELSE LET s == IdSeq(DOMAIN w.LocalServers)[i]
                   a == maybeQueueMessage(tell[i - 1], s, UIDMessage(OurSID, uid, u))
               IN  maybeQueueMessage(a, s, Msg(uid, "CLICONN", << OurName, "ip" >>))
        w7 == tell[Cardinality(DOMAIN w.LocalServers)]
        \* Tell the local operators with +C.
        watchers == {x \in DOMAIN w.LocalUsers :
                       /\ w.LocalUsers[x] \in w.Opers
                       /\ Has(w.Users, w.LocalUsers[x])
                       /\ "C" \in w.Users[w.LocalUsers[x]].Modes}
    IN  QueueAll(w7, IdSeq(watchers), Msg(OurName, "NOTICE", << "CLICONN", uid >>))

\* LocalClient.registerUser.  The host name of a connection is "host"; the
\* first user rule that matches is applied, then the bans are looked at.  The
\* LUSERS and MOTD replies are views and left out.
registerUser(w, c, now) ==
  LET lc == w.LocalClients[c] IN
  IF Has(w.Nicks, RegisterNickKey(lc.PreRegDisplayNick))
  THEN LocalClient_messageFromServer(w, c, "433",
         << lc.PreRegDisplayNick, "Nickname is already in use" >>)
  ELSE
    LET uid == makeTS6UID(c)
        u0 == [ DisplayNick |-> lc.PreRegDisplayNick, HopCount |-> 0,
                NickTS |-> now, Modes |-> {"i"}, Username |-> lc.PreRegUser,
                Hostname |-> "host", Channels |-> EmptyMap, Local |-> c,
                ClosestServer |-> 0, Server |-> 0, AwayMessage |-> << >> ]
        \* The first user rule that matches may give a spoof.
        rules == SelectSeq(UserConfigs,
                   LAMBDA r : matchesMask(u0, r.UserMask, r.HostMask))
        spoofed == rules /= << >> /\ rules[1].Spoof /= ""
        u == IF spoofed THEN [u0 EXCEPT !.Hostname = rules[1].Spoof] ELSE u0
        wr == IF spoofed
              THEN maybeQueueMessage(w, c, Msg(OurName, "NOTICE",
                     << u.DisplayNick, "Spoofing your hostname" >>))
              ELSE w
        \* The bans that match the user, after the spoof.
        klines == SelectSeq(w.KLines,
                    LAMBDA k : matchesMask(u, k.UserMask, k.HostMask))
    IN
    IF klines /= << >>
    THEN noticeOpers(
           LocalClient_quit(
             maybeQueueMessage(wr, c, Msg(OurName, "465",
               << u.DisplayNick, "You are banned from this server" >>)),
             c, << "Connection closed", klines[1].Reason >>),
           "Rejecting user registration")
    ELSE IF makeTS6ID(c).err THEN Exit(w, c)
    ELSE
    LET w1 == [wr EXCEPT !.LocalClients = Remove(@, c),
                        !.LocalUsers = Put(@, c, uid),
                        !.Nicks = Put(@, canonicalizeNick(u.DisplayNick), uid),
                        !.Users = Put(@, uid, u)]
        w2 == maybeQueueMessage(w1, c, Msg(OurName, "001", << u.DisplayNick, "Welcome" >>))
        w3 == maybeQueueMessage(w2, c, Msg(OurName, "002", << u.DisplayNick, "Your host" >>))
        w4 == maybeQueueMessage(w3, c, Msg(OurName, "003", << u.DisplayNick, "Created" >>))
        w5 == maybeQueueMessage(w4, c, Msg(OurName, "004", << u.DisplayNick, OurName >>))
        w6 == maybeQueueMessage(w5, c, Msg(u.DisplayNick, "MODE", << u.DisplayNick, "+i" >>))
        \* Tell linked servers: UID, then CLICONN, to each.
        tell[i \in 0..Cardinality(DOMAIN w.LocalServers)] ==
          IF i = 0 THEN w6
          ELSE LET s == IdSeq(DOMAIN w.LocalServers)[i]
                   a == maybeQueueMessage(tell[i - 1], s, UIDMessage(OurSID, uid, u))
               IN  maybeQueueMessage(a, s, Msg(uid, "CLICONN", << OurName, "ip" >>))
        w7 == tell[Cardinality(DOMAIN w.LocalServers)]
        \* Tell the local operators with +C.
        watchers == {x \in DOMAIN w.LocalUsers :
                       /\ w.LocalUsers[x] \in w.Opers
                       /\ Has(w.Users, w.LocalUsers[x])
                       /\ "C" \in w.Users[w.LocalUsers[x]].Modes}
    IN  QueueAll(w7, IdSeq(watchers), Msg(OurName, "NOTICE", << "CLICONN", uid >>))

\* LocalClient.nickCommand
LocalClient_nickCommand(w, c, m, now) ==
  IF Len(m.Params) = 0
  THEN LocalClient_messageFromServer(w, c, "431", << "No nickname given" >>)
  ELSE
    LET nick == Truncate(m.Params[1], MaxNickLength) IN
    IF ~isValidNick(MaxNickLength, nick)
    THEN LocalClient_messageFromServer(w, c, "432", << nick, "Erroneous nickname" >>)
    ELSE IF Has(w.Nicks, canonicalizeNick(nick))
    THEN LocalClient_messageFromServer(w, c, "433",
           << nick, "Nickname is already in use" >>)
    ELSE
      LET w1 == Accept([w EXCEPT !.LocalClients[c].PreRegDisplayNick = nick], c, m) IN
      IF Len(w1.LocalClients[c].PreRegUser) > 0
      THEN registerUser(w1, c, now) ELSE w1

\* LocalClient.userCommand.  The real name (Params[3]) is at most 50
\* characters in every input of the model, so isValidRealName holds.
LocalClient_userCommand(w, c, m, now) ==
  IF Len(m.Params) /= 4
  THEN LocalClient_messageFromServer(w, c, "461",
         << m.Command, "Not enough parameters" >>)
  ELSE
    LET user == Truncate(<< "~" >> \o m.Params[1], maxUsernameLength) IN
    IF ~isValidUser(user)
    THEN LocalClient_messageFromServer(w, c, "ERROR", << "Invalid username" >>)
    ELSE
      LET w1 == Accept([w EXCEPT !.LocalClients[c].PreRegUser = user], c, m) IN
      IF Len(w1.LocalClients[c].PreRegDisplayNick) > 0
      THEN registerUser(w1, c, now) ELSE w1

-----------------------------------------------------------------------------
(* Servers.  A Server is an object of the heap ServerObjs; Servers maps a SID
   to the object it currently names.  LocalServer and LinkedTo are the
   pointers of the Go struct: a connection id and an object id, 0 for nil. *)

\* The smallest object id not in use in a heap.
NewOid(heap) == Min((1..(Cardinality(DOMAIN heap) + 1)) \ DOMAIN heap)

\* Any order of a finite set: the order of a range over a Go map.
RECURSIVE SetSeq(_)
SetSeq(S) ==
  IF S = {} THEN << >>
  ELSE LET x == CHOOSE y \in S : TRUE IN << x >> \o SetSeq(S \ {x})

RECURSIVE Concat(_)
Concat(ss) == IF ss = << >> THEN << >> ELSE Head(ss) \o Concat(Tail(ss))

RECURSIVE QueueSeq(_, _, _)
QueueSeq(w, c, ms) ==
  IF ms = << >> THEN w
  ELSE QueueSeq(maybeQueueMessage(w, c, Head(ms)), c, Tail(ms))

ToUpperCapab(t) ==
  CASE t = "qs" -> "QS" [] t = "encap" -> "ENCAP" [] t = "tb" -> "TB"
    [] OTHER -> t

\* parseCapabsString: the capability string is the sequence of its
\* space-separated tokens; empty tokens are skipped, the rest upper-cased.
parseCapabsString(s) == {ToUpperCapab(s[i]) : i \in {j \in DOMAIN s : s[j] /= ""}}

Server_isLocal(server) == server.LocalServer /= 0
hasCapability(server, cap) == cap \in server.Capabs
capabsString(server) == server.Capabs

\* User.isLocal
User_isLocal(u) == u.Local /= 0

\* Catbox.isLinkedToServer: some server of the Servers table has this name.
isLinkedToServer(w, name) ==
  \E sid \in DOMAIN w.Servers : w.ServerObjs[w.Servers[sid]].Name = name

\* sortServersByHopCount: the object ids of the Servers table by hop count.
RECURSIVE ByHopCount(_, _)
ByHopCount(w, S) ==
  IF S = {} THEN << >>
  ELSE LET x == CHOOSE y \in S :
                  \A z \in S : w.ServerObjs[y].HopCount <= w.ServerObjs[z].HopCount
       IN  << x >> \o ByHopCount(w, S \ {x})
sortServersByHopCount(w) == ByHopCount(w, {w.Servers[sid] : sid \in DOMAIN w.Servers})

\* Channel.userHasOps
userHasOps(ch, uid) == uid \in ch.Ops

\* The modes parameter of the SJOIN of a burst.
BurstModes(ch) == {"n", "s"}

\* irc.MaxLineLength: the bytes of a line, CR and LF counted.
MaxLineLength == 512

\* The bytes of a list of UIDs, each with @ before it when it has ops, with
\* a space between two.
RECURSIVE uidsLength(_)
uidsLength(uids) ==
  IF uids = << >> THEN 0
  ELSE Len(Head(uids).uid) + (IF Head(uids).op THEN 1 ELSE 0)
       + (IF Tail(uids) = << >> THEN 0 ELSE 1 + uidsLength(Tail(uids)))

\* The bytes of the line that Encode makes of the SJOIN of a burst: the
\* colon and our SID, the command, the time stamp, the name, the modes +ns
\* and the list of UIDs, each after a space, then CR and LF.  The list has a
\* colon before it when it is empty or has a space in it.
sjoinEncodedLength(tsLength, nameLength, uids) ==
  1 + Len(OurSID) + 1 + Len("SJOIN") + 1 + tsLength + 1 + nameLength + 1 + Len("+ns")
    + 1 + (IF Len(uids) = 1 THEN 0 ELSE 1) + uidsLength(uids) + 2

\* The member loop of sendBurst that leaves out the space when it looks
\* whether the next UID fits.
sjoinAddMemberNoSpace(st, uidStr, baseSize) ==
  IF st.uids = << >> THEN [st EXCEPT !.uids = << uidStr >>]
  ELSE IF baseSize + uidsLength(st.uids) + uidsLength(<< uidStr >>) > MaxLineLength
  THEN [uids |-> << uidStr >>, sent |-> Append(st.sent, st.uids)]
  ELSE [st EXCEPT !.uids = Append(@, uidStr)]

\* The member loop of sendBurst, one member: st.uids is the list being
\* filled and st.sent the lists of the SJOINs queued.  The first UID of a
\* list is taken as it is; a UID that would take the line over the limit,
\* with the space before it, makes the list go out and starts the next.
sjoinAddMember(st, uidStr, baseSize) ==
  IF st.uids = << >> THEN [st EXCEPT !.uids = << uidStr >>]
  ELSE IF baseSize + uidsLength(st.uids) + 1 + uidsLength(<< uidStr >>) > MaxLineLength
  THEN [uids |-> << uidStr >>, sent |-> Append(st.sent, st.uids)]
  ELSE [st EXCEPT !.uids = Append(@, uidStr)]

\* What sendBurst does after the loop: a list that is not empty goes out.
sjoinRest(st) ==
  IF st.uids /= << >> THEN [uids |-> << >>, sent |-> Append(st.sent, st.uids)] ELSE st

\* The lists of the SJOINs of a channel: the loop over the members.
RECURSIVE sjoinLists(_, _, _)
sjoinLists(st, uids, baseSize) ==
  IF uids = << >> THEN sjoinRest(st).sent
  ELSE sjoinLists(sjoinAddMember(st, Head(uids), baseSize), Tail(uids), baseSize)

\* LocalServer.sendBurst, to the peer on session s.  A channel name of at
\* most 50 characters always encodes.
sendBurst(w, s) ==
  LET peer == w.ServerObjs[w.LocalServers[s].Server]
      servers == SelectSeq(sortServersByHopCount(w),
                           LAMBDA o : w.ServerObjs[o].LocalServer /= s)
      sidMsgs(o) ==
        LET server == w.ServerObjs[o]
            linkedTo == IF Server_isLocal(server) THEN OurSID
                        ELSE w.ServerObjs[server.LinkedTo].SID
        IN  << Msg(linkedTo, "SID", << server.Name, FormatInt(server.HopCount + 1),
                                       server.SID, server.Description >>),
               Msg(server.SID, "ENCAP", << "*", "GCAP", capabsString(server) >>) >>
      uidMsgs(uid) ==
        LET user == w.Users[uid]
            onServer == IF User_isLocal(user) THEN OurSID
                        ELSE w.ServerObjs[user.Server].SID
        IN  << UIDMessage(onServer, uid, user) >> \o
            (IF Len(user.AwayMessage) = 0 THEN << >>
             ELSE << Msg(uid, "AWAY", << user.AwayMessage >>) >>)
      chanMsgs(name) ==
        LET channel == w.ChanObjs[w.Channels[name]]
            members == SetSeq(channel.Members)
            uids == [i \in DOMAIN members |->
                       [op |-> userHasOps(channel, members[i]), uid |-> members[i]]]
            lists == sjoinLists([uids |-> << >>, sent |-> << >>], uids,
                       sjoinEncodedLength(Len(FormatInt(channel.TS)), Len(channel.Name),
                                          << >>))
        IN  [i \in DOMAIN lists |->
               Msg(OurSID, "SJOIN",
                   << FormatInt(channel.TS), channel.Name, BurstModes(channel), lists[i] >>)] \o
            (IF hasCapability(peer, "TB") /\ Len(channel.Topic) > 0
             THEN << Msg(OurSID, "TB", << channel.Name, FormatInt(channel.TopicTS),
                                          channel.TopicSetter, channel.Topic >>) >>
             ELSE << >>)
      users == SetSeq(DOMAIN w.Users)
      chans == SetSeq(DOMAIN w.Channels)
  IN  QueueSeq(w, s,
        Concat([i \in DOMAIN servers |-> sidMsgs(servers[i])]) \o
        Concat([i \in DOMAIN users |-> uidMsgs(users[i])]) \o
        Concat([i \in DOMAIN chans |-> chanMsgs(chans[i])]))

\* NewLocalServer
NewLocalServer(oid) ==
  [Server |-> oid, GotPING |-> FALSE, GotPONG |-> FALSE, Bursting |-> TRUE]

\* The SID under which registerServer files the new server.
RegisterSID(lc) == lc.PreRegTS6SID

\* LocalClient.registerServer (the links of the model are not TLS).
registerServer(w, c) ==
  LET lc == w.LocalClients[c]
      oid == NewOid(w.ServerObjs)
      newServer == [ SID |-> lc.PreRegTS6SID, Name |-> lc.PreRegServerName,
                     Description |-> lc.PreRegServerDesc, HopCount |-> 1, Capabs |-> lc.PreRegCapabs,
                     LocalServer |-> c, LinkedTo |-> 0, ClosestServer |-> 0 ]
      w1 == [w EXCEPT !.ServerObjs = Put(@, oid, newServer),
                      !.LocalClients = Remove(@, c),
                      !.LocalServers = Put(@, c, NewLocalServer(oid)),
                      !.Servers = Put(@, RegisterSID(lc), oid)]
      w2 == noticeOpers(w1, "Established link")
      w3 == sendBurst(w2, c)
      w4 == maybeQueueMessage(w3, c, Msg("", "PING", << OurSID >>))
      others == IdSeq(DOMAIN w4.LocalServers \ {c})
      tell[i \in 0..Len(others)] ==
        IF i = 0 THEN w4
        ELSE LET a == maybeQueueMessage(tell[i - 1], others[i],
                        Msg(OurSID, "SID", << newServer.Name,
                          FormatInt(newServer.HopCount + 1), newServer.SID,
                          newServer.Description >>))
             IN  maybeQueueMessage(a, others[i],
                   Msg(newServer.SID, "ENCAP", << "*", "GCAP", capabsString(newServer) >>))
  IN  tell[Len(others)]

-----------------------------------------------------------------------------
(* The link handshake of a connection (local_client.go). *)


\* passCommand that takes any TS version.
passCommandAnyVersion(w, c, m) ==
  LET lc == w.LocalClients[c] IN
  IF Len(m.Params) < 4
  THEN LocalClient_messageFromServer(w, c, "461", << "PASS", "Not enough parameters" >>)
  ELSE IF lc.GotPASS THEN LocalClient_quit(w, c, "Double PASS")
  ELSE IF m.Params[2] /= "TS" THEN LocalClient_quit(w, c, "Unexpected PASS format: TS")
  ELSE IF ~isValidSID(m.Params[4]) THEN LocalClient_quit(w, c, "Malformed SID")
  ELSE IF m.Params[4] = OurSID THEN LocalClient_quit(w, c, "You're using my SID!")
  ELSE IF Has(w.Servers, m.Params[4]) THEN LocalClient_quit(w, c, "I already know that SID!")
  ELSE Accept([w EXCEPT !.LocalClients[c].PreRegPass = m.Params[1],
                        !.LocalClients[c].PreRegTS6SID = m.Params[4],
                        !.LocalClients[c].GotPASS = TRUE], c, m)

\* LocalClient.passCommand
passCommand(w, c, m) ==
  LET lc == w.LocalClients[c] IN
  IF Len(m.Params) < 4
  THEN LocalClient_messageFromServer(w, c, "461", << "PASS", "Not enough parameters" >>)
  ELSE IF lc.GotPASS THEN LocalClient_quit(w, c, "Double PASS")
  ELSE IF m.Params[2] /= "TS" THEN LocalClient_quit(w, c, "Unexpected PASS format: TS")
  ELSE IF ~ParsesAsInt(m.Params[3]) THEN LocalClient_quit(w, c, "Unexpected PASS format: Version")
  ELSE IF ParseInt(m.Params[3]) /= 6 THEN LocalClient_quit(w, c, "Unsupported TS version")
  ELSE IF ~isValidSID(m.Params[4]) THEN LocalClient_quit(w, c, "Malformed SID")
  ELSE IF m.Params[4] = OurSID THEN LocalClient_quit(w, c, "You're using my SID!")
  ELSE IF Has(w.Servers, m.Params[4]) THEN LocalClient_quit(w, c, "I already know that SID!")
  ELSE Accept([w EXCEPT !.LocalClients[c].PreRegPass = m.Params[1],
                        !.LocalClients[c].PreRegTS6SID = m.Params[4],
                        !.LocalClients[c].GotPASS = TRUE], c, m)

\* capabCommand without the check that PASS came first.
capabCommandNoPassFirst(w, c, m) ==
  LET lc == w.LocalClients[c] IN
  IF Len(m.Params) = 0
  THEN LocalClient_messageFromServer(w, c, "461", << "CAPAB", "Not enough parameters" >>)
  ELSE IF lc.GotCAPAB THEN LocalClient_quit(w, c, "Double CAPAB")
  ELSE
    LET w1 == [w EXCEPT !.LocalClients[c].PreRegCapabs = parseCapabsString(m.Params[1])]
        capabs == w1.LocalClients[c].PreRegCapabs
    IN  IF "QS" \notin capabs THEN LocalClient_quit(w1, c, "Missing QS")
        ELSE IF "ENCAP" \notin capabs THEN LocalClient_quit(w1, c, "Missing ENCAP")
        ELSE Accept([w1 EXCEPT !.LocalClients[c].GotCAPAB = TRUE], c, m)

\* LocalClient.capabCommand
capabCommand(w, c, m) ==
  LET lc == w.LocalClients[c] IN
  IF Len(m.Params) = 0
  THEN LocalClient_messageFromServer(w, c, "461", << "CAPAB", "Not enough parameters" >>)
  ELSE IF ~lc.GotPASS THEN LocalClient_quit(w, c, "PASS first")
  ELSE IF lc.GotCAPAB THEN LocalClient_quit(w, c, "Double CAPAB")
  ELSE
    LET w1 == [w EXCEPT !.LocalClients[c].PreRegCapabs = parseCapabsString(m.Params[1])]
        capabs == w1.LocalClients[c].PreRegCapabs
    IN  IF "QS" \notin capabs THEN LocalClient_quit(w1, c, "Missing QS")
        ELSE IF "ENCAP" \notin capabs THEN LocalClient_quit(w1, c, "Missing ENCAP")
        ELSE Accept([w1 EXCEPT !.LocalClients[c].GotCAPAB = TRUE], c, m)

\* LocalClient.serverCommand
serverCommand(w, c, m, now) ==
  LET lc == w.LocalClients[c] IN
  IF Len(m.Params) /= 3
  THEN LocalClient_messageFromServer(w, c, "461", << "SERVER", "Not enough parameters" >>)
  ELSE IF ~lc.GotCAPAB THEN LocalClient_quit(w, c, "CAPAB first.")
  ELSE IF lc.GotSERVER THEN LocalClient_quit(w, c, "Double SERVER.")
  ELSE IF ~Has(ConfigServers, m.Params[1]) THEN LocalClient_quit(w, c, "I don't know you")
  ELSE IF ConfigServers[m.Params[1]] /= lc.PreRegPass THEN LocalClient_quit(w, c, "Bad password")
  ELSE IF m.Params[2] /= "1" THEN LocalClient_quit(w, c, "Bad hopcount")
  ELSE IF isLinkedToServer(w, m.Params[1])
  THEN LocalClient_quit(w, c, "I'm already linked to you!")
  ELSE
    LET w1 == Accept([w EXCEPT !.LocalClients[c].PreRegServerName = m.Params[1],
                               !.LocalClients[c].PreRegServerDesc = m.Params[3],
                               !.LocalClients[c].GotSERVER = TRUE], c, m)
    IN  IF ~lc.SentSERVER THEN sendServerIntro(w1, c, ConfigServers[m.Params[1]])
        ELSE sendSVINFO(w1, c, now)

Abs(x) == IF x < 0 THEN 0 - x ELSE x

\* svinfoCommand without the final check that the server is not linked yet.
svinfoCommandNoFinalCheck(w, c, m, now) ==
  LET lc == w.LocalClients[c] IN
  IF Len(m.Params) < 4
  THEN LocalClient_messageFromServer(w, c, "461", << "SVINFO", "Not enough parameters" >>)
  ELSE IF ~lc.GotSERVER \/ ~lc.SentSERVER THEN LocalClient_quit(w, c, "SERVER first")
  ELSE IF m.Params[1] /= "6" \/ m.Params[2] /= "6"
  THEN LocalClient_quit(w, c, "Unsupported TS version")
  ELSE IF m.Params[3] /= "0" THEN LocalClient_quit(w, c, "Malformed third parameter")
  ELSE IF ~ParsesAsInt(m.Params[4]) THEN LocalClient_quit(w, c, "Malformed time")
  ELSE IF Abs(now - ParseInt(m.Params[4])) > MaxClockSkew
  THEN LocalClient_quit(w, c, "Time insanity")
  ELSE
    LET w1 == IF ~lc.SentSVINFO THEN sendSVINFO(w, c, now) ELSE w
    IN  registerServer(Accept(w1, c, m), c)

\* svinfoCommand that refuses a clock skew of the maximum itself.
svinfoCommandBelowMaximum(w, c, m, now) ==
  LET lc == w.LocalClients[c] IN
  IF Len(m.Params) < 4
  THEN LocalClient_messageFromServer(w, c, "461", << "SVINFO", "Not enough parameters" >>)
  ELSE IF ~lc.GotSERVER \/ ~lc.SentSERVER THEN LocalClient_quit(w, c, "SERVER first")
  ELSE IF m.Params[1] /= "6" \/ m.Params[2] /= "6"
  THEN LocalClient_quit(w, c, "Unsupported TS version")
  ELSE IF m.Params[3] /= "0" THEN LocalClient_quit(w, c, "Malformed third parameter")
  ELSE IF ~ParsesAsInt(m.Params[4]) THEN LocalClient_quit(w, c, "Malformed time")
  ELSE IF Abs(now - ParseInt(m.Params[4])) >= MaxClockSkew
  THEN LocalClient_quit(w, c, "Time insanity")
  ELSE IF isLinkedToServer(w, lc.PreRegServerName)
  THEN LocalClient_quit(w, c, "I'm already linked to you!")
  ELSE
    LET w1 == IF ~lc.SentSVINFO THEN sendSVINFO(w, c, now) ELSE w
    IN  registerServer(Accept(w1, c, m), c)

\* svinfoCommand that answers every SVINFO with one of ours.
svinfoCommandAlwaysSends(w, c, m, now) ==
  LET lc == w.LocalClients[c] IN
  IF Len(m.Params) < 4
  THEN LocalClient_messageFromServer(w, c, "461", << "SVINFO", "Not enough parameters" >>)
  ELSE IF ~lc.GotSERVER \/ ~lc.SentSERVER THEN LocalClient_quit(w, c, "SERVER first")
  ELSE IF m.Params[1] /= "6" \/ m.Params[2] /= "6"
  THEN LocalClient_quit(w, c, "Unsupported TS version")
  ELSE IF m.Params[3] /= "0" THEN LocalClient_quit(w, c, "Malformed third parameter")
  ELSE IF ~ParsesAsInt(m.Params[4]) THEN LocalClient_quit(w, c, "Malformed time")
  ELSE IF Abs(now - ParseInt(m.Params[4])) > MaxClockSkew THEN LocalClient_quit(w, c, "Time insanity")
  ELSE IF isLinkedToServer(w, lc.PreRegServerName)
  THEN LocalClient_quit(w, c, "I'm already linked to you!")
  ELSE registerServer(Accept(sendSVINFO(w, c, now), c, m), c)

\* LocalClient.svinfoCommand
svinfoCommand(w, c, m, now) ==
  LET lc == w.LocalClients[c] IN
  IF Len(m.Params) < 4
  THEN LocalClient_messageFromServer(w, c, "461", << "SVINFO", "Not enough parameters" >>)
  ELSE IF ~lc.GotSERVER \/ ~lc.SentSERVER THEN LocalClient_quit(w, c, "SERVER first")
  ELSE IF m.Params[1] /= "6" \/ m.Params[2] /= "6"
  THEN LocalClient_quit(w, c, "Unsupported TS version")
  ELSE IF m.Params[3] /= "0" THEN LocalClient_quit(w, c, "Malformed third parameter")
  ELSE IF ~ParsesAsInt(m.Params[4]) THEN LocalClient_quit(w, c, "Malformed time")
  ELSE IF Abs(now - ParseInt(m.Params[4])) > MaxClockSkew THEN LocalClient_quit(w, c, "Time insanity")
  ELSE IF isLinkedToServer(w, lc.PreRegServerName)
  THEN LocalClient_quit(w, c, "I'm already linked to you!")
  ELSE
    LET w1 == IF ~lc.SentSVINFO THEN sendSVINFO(w, c, now) ELSE w
    IN  registerServer(Accept(w1, c, m), c)

\* LocalClient.errorCommand
LocalClient_errorCommand(w, c, m) == LocalClient_quit(w, c, "Bye")

\* LocalClient.handleMessage that ends the session only when the count has
\* gone over the maximum.
handleMessageOverMaximum(w, c, m, now) ==
  IF m.Prefix /= "" THEN LocalClient_quit(w, c, "No prefix permitted")
  ELSE
    LET w1 == [w EXCEPT !.LocalClients[c].PreRegisterMessageCount = @ + 1] IN
    IF w1.LocalClients[c].PreRegisterMessageCount > MaxAllowedPreRegisterMessageCount
    THEN LocalClient_quit(w1, c, "Too many messages")
    ELSE CASE m.Command \in {"CAP", "NOTICE"} -> w1
           [] m.Command = "NICK" -> LocalClient_nickCommand(w1, c, m, now)
           [] m.Command = "USER" -> LocalClient_userCommand(w1, c, m, now)
           [] m.Command = "PASS" -> passCommand(w1, c, m)
           [] m.Command = "CAPAB" -> capabCommand(w1, c, m)
           [] m.Command = "SERVER" -> serverCommand(w1, c, m, now)
           [] m.Command = "SVINFO" -> svinfoCommand(w1, c, m, now)
           [] m.Command = "ERROR" -> LocalClient_errorCommand(w1, c, m)
           [] OTHER -> LocalClient_messageFromServer(w1, c, "451",
                         << "You have not registered." >>)

\* LocalClient.handleMessage
LocalClient_handleMessage(w, c, m, now) ==
  IF m.Prefix /= "" THEN LocalClient_quit(w, c, "No prefix permitted")
  ELSE
    LET w1 == [w EXCEPT !.LocalClients[c].PreRegisterMessageCount = @ + 1] IN
    IF w1.LocalClients[c].PreRegisterMessageCount >= MaxAllowedPreRegisterMessageCount
    THEN LocalClient_quit(w1, c, "Too many messages")
    ELSE CASE m.Command \in {"CAP", "NOTICE"} -> w1
           [] m.Command = "NICK" -> LocalClient_nickCommand(w1, c, m, now)
           [] m.Command = "USER" -> LocalClient_userCommand(w1, c, m, now)
           [] m.Command = "PASS" -> passCommand(w1, c, m)
           [] m.Command = "CAPAB" -> capabCommand(w1, c, m)
           [] m.Command = "SERVER" -> serverCommand(w1, c, m, now)
           [] m.Command = "SVINFO" -> svinfoCommand(w1, c, m, now)
           [] m.Command = "ERROR" -> LocalClient_errorCommand(w1, c, m)
           [] OTHER -> LocalClient_messageFromServer(w1, c, "451",
                         << "You have not registered." >>)

-----------------------------------------------------------------------------
(* Channels and the removal of users.  A Channel is an object of the heap
   ChanObjs; Channels maps a name to the object it currently names and the
   Channels map of a user holds object ids too. *)

\* Channel.removeUser: the user leaves the members and the ops of the channel
\* and the channel leaves the Channels map of the user.
removeUser(w, ch, uid) ==
  LET w1 == [w EXCEPT !.ChanObjs[ch].Members = @ \ {uid},
                      !.ChanObjs[ch].Ops = @ \ {uid}]
  IN  IF Has(w1.Users, uid)
      THEN [w1 EXCEPT !.Users[uid].Channels = Remove(@, w.ChanObjs[ch].Name)]
      ELSE w1

\* Channel.grantOps
grantOps(w, ch, uid) == [w EXCEPT !.ChanObjs[ch].Ops = @ \cup {uid}]

\* Catbox.messageLocalUsersOnChannel
messageLocalUsersOnChannel(w, ch, m) ==
  QueueAll(w, IdSeq({w.Users[u].Local : u \in {x \in w.ChanObjs[ch].Members :
                       Has(w.Users, x) /\ User_isLocal(w.Users[x])}}), m)

\* Channel.clearModes: the channel loses its modes and its ops.
clearModes(w, ch) ==
  LET w1 == [w EXCEPT !.ChanObjs[ch].Modes = {}, !.ChanObjs[ch].Ops = {}]
  IN  messageLocalUsersOnChannel(w1, ch,
        Msg(OurName, "MODE", << w.ChanObjs[ch].Name, "-modes" >>))

\* The channel stays in the table whether it has a member or not.
keepChannel(w, ch) == w

\* The channel is dropped from the table, by its name, when it has no member.
dropIfEmpty(w, ch) ==
  IF w.ChanObjs[ch].Members = {}
  THEN [w EXCEPT !.Channels = Remove(@, w.ChanObjs[ch].Name)]
  ELSE w

\* LocalServer.partUser
partUser(w, uid, ch, partMessage) ==
  LET w1 == dropIfEmpty(removeUser(w, ch, uid), ch)
  IN  messageLocalUsersOnChannel(w1, ch,
        Msg(w.Users[uid].DisplayNick, "PART", << w.ChanObjs[ch].Name >>))

\* The user leaves every channel of its Channels map, one after the other.
RECURSIVE leaveChannels(_, _, _)
leaveChannels(w, uid, chs) ==
  IF chs = << >> THEN w
  ELSE leaveChannels(dropIfEmpty(removeUser(w, Head(chs), uid), Head(chs)),
                     uid, Tail(chs))

\* The local users that share a channel with the user.
LocalPeersOf(w, uid) ==
  {w.Users[x].Local :
     x \in {y \in UNION {w.ChanObjs[w.Users[uid].Channels[n]].Members :
                           n \in DOMAIN w.Users[uid].Channels} :
              y /= uid /\ Has(w.Users, y) /\ User_isLocal(w.Users[y])}}

\* The user is forgotten: it leaves its channels, Opers, Nicks and Users.
forgetUser(w, uid) ==
  LET u == w.Users[uid]
      w1 == leaveChannels(w, uid, SetSeq({u.Channels[n] : n \in DOMAIN u.Channels}))
  IN  [w1 EXCEPT !.Opers = @ \ {uid},
                 !.Nicks = Remove(@, canonicalizeNick(u.DisplayNick)),
                 !.Users = Remove(@, uid)]

\* The local users on the channels of the user are told channel by channel.
RECURSIVE tellChannels(_, _, _, _)
tellChannels(w, uid, chs, m) ==
  IF chs = << >> THEN w
  ELSE tellChannels(
         QueueAll(w, IdSeq({w.Users[x].Local :
                              x \in {y \in w.ChanObjs[Head(chs)].Members :
                                       y /= uid /\ Has(w.Users, y)
                                         /\ User_isLocal(w.Users[y])}}), m),
         uid, Tail(chs), m)

\* quitRemoteUser that tells a local user once for every channel it shares.
quitRemoteUserPerChannel(w, uid, message) ==
  LET u == w.Users[uid]
  IN  forgetUser(tellChannels(w, uid, SetSeq({u.Channels[n] : n \in DOMAIN u.Channels}),
                              Msg(u.DisplayNick, "QUIT", << message >>)), uid)

\* Catbox.quitRemoteUser: local users sharing a channel are told once, and
\* the user is forgotten.
quitRemoteUser(w, uid, message) ==
  forgetUser(QueueAll(w, IdSeq(LocalPeersOf(w, uid)),
                      Msg(w.Users[uid].DisplayNick, "QUIT", << message >>)), uid)

\* LocalUser.quit: as quitRemoteUser, and the session of the user is closed.
LocalUser_quit(w, uid, message) ==
  LET c == w.Users[uid].Local
      w1 == QueueAll(w, IdSeq(LocalPeersOf(w, uid)),
                     Msg(w.Users[uid].DisplayNick, "QUIT", << message >>))
      w2 == maybeQueueMessage(w1, c, Msg("", "ERROR", << message >>))
  IN  IF ~Has(w.LocalUsers, c) THEN w
      ELSE [forgetUser(w2, uid) EXCEPT !.closed[c] = @ + 1,
                                       !.LocalUsers = Remove(@, c)]

\* The user is killed here: a local user quits, a remote user is forgotten.
killUser(w, uid, reason) ==
  IF User_isLocal(w.Users[uid]) THEN LocalUser_quit(w, uid, reason)
  ELSE quitRemoteUser(w, uid, reason)

\* Catbox.issueKill: the user is killed and every local server is told.
issueKill(w, uid, reason) ==
  QueueAll(killUser(w, uid, reason), IdSeq(DOMAIN w.LocalServers),
           Msg(OurSID, "KILL", << uid, reason >>))

\* The outcome of a collision of the incoming nick (of time stamp nickTS,
\* user name and host name) with the user that holds it: "both" are killed,
\* the "existing" user is, or the "incoming" one.
CollisionLoser(existing, username, hostname, nickTS) ==
  IF nickTS = existing.NickTS
       \/ << username, hostname >> /= << existing.Username, existing.Hostname >>
  THEN "both"
  ELSE IF nickTS < existing.NickTS THEN "existing" ELSE "incoming"

\* No arbitration: the incoming nick is taken as it comes.
handleCollisionNone(w, s, uid, nick, username, hostname, nickTS, command) ==
  [w |-> w, ok |-> TRUE]

\* Catbox.handleCollision: the world after the collision was settled, and
\* whether the caller is to proceed with the incoming nick.  There is a
\* collision when a different user, one of Users, holds the canonical nick.
handleCollision(w, s, uid, nick, username, hostname, nickTS, command) ==
  IF \/ ~Has(w.Nicks, canonicalizeNick(nick))
     \/ ~Has(w.Users, w.Nicks[canonicalizeNick(nick)])
     \/ w.Nicks[canonicalizeNick(nick)] = uid
  THEN [w |-> w, ok |-> TRUE]
  ELSE
    LET existingUID == w.Nicks[canonicalizeNick(nick)]
        loser == CollisionLoser(w.Users[existingUID], username, hostname, nickTS)
        w1 == IF loser \in {"both", "existing"}
              THEN issueKill(w, existingUID, "Nick collision") ELSE w
        \* The incoming user of a UID is not known yet: the KILL goes back
        \* to the server that sent it.  The user of a NICK is known.
        w2 == IF loser = "existing" THEN w1
              ELSE IF command = "NICK" /\ Has(w1.Users, uid)
              THEN issueKill(w1, uid, "Nick collision")
              ELSE maybeQueueMessage(w1, s, Msg(OurSID, "KILL", << uid, "Nick collision" >>))
    IN  [w |-> w2, ok |-> loser = "existing"]

-----------------------------------------------------------------------------
(* LocalServer: a linked peer (local_server.go). *)

\* A message goes to every local server but the one it came from.
Propagate(w, s, m) == QueueAll(w, IdSeq(DOMAIN w.LocalServers \ {s}), m)

\* LocalServer.messageFromServer
LocalServer_messageFromServer(w, s, command, params) ==
  LET sid == w.ServerObjs[w.LocalServers[s].Server].SID
      ps == IF isNumericCommand(command) THEN << sid >> \o params ELSE params
  IN  maybeQueueMessage(w, s, Msg(OurSID, command, ps))

\* Server.getLinkedServers: the servers of the table whose LinkedTo chain
\* leads to a server of S.
RECURSIVE LinkedClosure(_, _)
LinkedClosure(w, S) ==
  LET T == S \cup {w.Servers[sid] : sid \in {x \in DOMAIN w.Servers :
                     w.ServerObjs[w.Servers[x]].LinkedTo \in S}}
  IN  IF T = S THEN S ELSE LinkedClosure(w, T)
getLinkedServers(w, o) == LinkedClosure(w, {o}) \ {o}

\* The users a split loses: the remote users whose Server is a lost server.
LostUsers(w, lostServers) ==
  {uid \in DOMAIN w.Users :
     ~User_isLocal(w.Users[uid]) /\ w.Users[uid].Server \in lostServers}

RECURSIVE quitRemoteUsers(_, _, _)
quitRemoteUsers(w, uids, message) ==
  IF uids = << >> THEN w
  ELSE quitRemoteUsers(quitRemoteUser(w, Head(uids), message), Tail(uids), message)

\* LocalServer.serverSplitCleanUp
serverSplitCleanUp(w, s, lostServer) ==
  LET lostServers == getLinkedServers(w, lostServer) \cup {lostServer}
      lost == w.ServerObjs[lostServer]
      quitMessage == IF Server_isLocal(lost) THEN << OurName, lost.Name >>
                     ELSE << w.ServerObjs[lost.LinkedTo].Name, lost.Name >>
      w1 == quitRemoteUsers(w, SetSeq(LostUsers(w, lostServers)), quitMessage)
  IN  [w1 EXCEPT
         !.LocalServers = [c \in DOMAIN @ \ {w.ServerObjs[o].LocalServer : o \in lostServers}
                             |-> @[c]],
         !.Servers = [sid \in DOMAIN @ \ {w.ServerObjs[o].SID : o \in lostServers}
                        |-> @[sid]]]

\* LocalServer.quit that announces the SQUIT before the clean-up, to every
\* local server the lost one included.
LocalServer_quitTellsAll(w, s, msg) ==
  IF ~Has(w.LocalServers, s) THEN w
  ELSE
    LET server == w.LocalServers[s].Server
        w1 == LocalServer_messageFromServer(w, s, "ERROR", << msg >>)
        w2 == [w1 EXCEPT !.closed[s] = @ + 1]
        w3 == QueueAll(w2, IdSeq(DOMAIN w2.LocalServers),
                       Msg(OurSID, "SQUIT", << w.ServerObjs[server].SID, msg >>))
    IN  noticeOpers(serverSplitCleanUp(w3, s, server), "Server delinked")

\* LocalServer.quit
LocalServer_quit(w, s, msg) ==
  IF ~Has(w.LocalServers, s) THEN w
  ELSE
    LET server == w.LocalServers[s].Server
        w1 == LocalServer_messageFromServer(w, s, "ERROR", << msg >>)
        w2 == [w1 EXCEPT !.closed[s] = @ + 1]
        w3 == serverSplitCleanUp(w2, s, server)
        w4 == QueueAll(w3, IdSeq(DOMAIN w3.LocalServers),
                       Msg(OurSID, "SQUIT", << w.ServerObjs[server].SID, msg >>))
    IN  noticeOpers(w4, "Server delinked")

\* A message goes towards a server: to its session, or to the session of
\* the local server it is behind.
Route(w, server, m) ==
  IF Server_isLocal(server) THEN maybeQueueMessage(w, server.LocalServer, m)
  ELSE maybeQueueMessage(w, server.ClosestServer, m)

\* The burst with the peer is over.
burstOver(w, s) ==
  noticeOpers([w EXCEPT !.LocalServers[s].Bursting = FALSE], "Burst over")

\* LocalServer.pingCommand
pingCommand(w, s, m) ==
  LET ls == w.LocalServers[s]
      sourceSID == m.Prefix
      destinationSID == IF Len(m.Params) >= 2 THEN m.Params[2] ELSE OurSID
  IN
  IF Len(m.Params) < 1
  THEN LocalServer_messageFromServer(w, s, "461", << "PING", "Not enough parameters" >>)
  ELSE IF ~Has(w.Servers, sourceSID)
  THEN maybeQueueMessage(w, s, Msg(OurSID, "402", << sourceSID, "No such server" >>))
  ELSE IF destinationSID = OurSID
  THEN
    LET w1 == maybeQueueMessage(w, s, Msg(OurSID, "PONG", << OurName, sourceSID >>)) IN
    IF ls.Bursting /\ sourceSID = w.ServerObjs[ls.Server].SID
    THEN LET w2 == [w1 EXCEPT !.LocalServers[s].GotPING = TRUE]
         IN  IF ls.GotPONG THEN burstOver(w2, s) ELSE w2
    ELSE w1
  ELSE IF ~Has(w.Servers, destinationSID)
  THEN maybeQueueMessage(w, s, Msg(OurSID, "402", << destinationSID, "No such server" >>))
  ELSE Route(w, w.ServerObjs[w.Servers[destinationSID]], m)

\* LocalServer.pongCommand
pongCommand(w, s, m) ==
  LET ls == w.LocalServers[s] IN
  IF Len(m.Params) < 2
  THEN LocalServer_messageFromServer(w, s, "461", << "PONG", "Not enough parameters" >>)
  ELSE IF ~Has(w.Servers, m.Prefix)
  THEN LocalServer_quit(w, s, "Unknown source server (PONG)")
  ELSE IF m.Params[2] = OurSID
  THEN
    LET w1 == [w EXCEPT !.LocalServers[s].GotPONG = TRUE] IN
    IF ls.Bursting /\ ls.GotPING THEN burstOver(w1, s) ELSE w1
  ELSE IF ~Has(w.Servers, m.Params[2])
  THEN LocalServer_quit(w, s, "Unknown destination server (PONG)")
  ELSE Route(w, w.ServerObjs[w.Servers[m.Params[2]]], m)

\* LocalServer.errorCommand
LocalServer_errorCommand(w, s, m) == LocalServer_quit(w, s, "ERROR from peer")

\* isValidUID: nine characters, a SID and an ID; over the UIDs of the model.
isValidUID(uid) ==
  uid \in SeqToSet(OurUIDs) \cup {"002AAAAAB", "002AAAAAC", "003AAAAAB", "004AAAAAB", "004AAAAAC"}

\* User.isOperator
isOperator(u) == "o" \in u.Modes

\* The user modes a UID message sets: i, o and C, after the plus sign.
UmodesOf(str) == {str[i] : i \in 2..Len(str)} \cap {"i", "o", "C"}

\* The same message with its hop count, the second parameter, one higher.
WithNextHop(m) == [m EXCEPT !.Params[2] = FormatInt(ParseInt(@) + 1)]

\* uidCommand once the message is validated and no collision stops it.
acceptUID(w, s, m, usersServer) ==
  LET uid == m.Params[8]
      u == [ DisplayNick |-> m.Params[1], HopCount |-> ParseInt(m.Params[2]),
             NickTS |-> ParseInt(m.Params[3]), Modes |-> UmodesOf(m.Params[4]),
             Username |-> m.Params[5], Hostname |-> m.Params[6],
             Channels |-> EmptyMap, Local |-> 0,
             ClosestServer |-> s, Server |-> usersServer, AwayMessage |-> << >> ]
      w1 == [w EXCEPT !.Opers = IF isOperator(u) THEN @ \cup {uid} ELSE @,
                      !.Nicks = Put(@, canonicalizeNick(u.DisplayNick), uid),
                      !.Users = Put(@, uid, u)]
      w2 == Propagate(w1, s, WithNextHop(m))
      watchers == {x \in DOMAIN w2.LocalUsers :
                     /\ w2.LocalUsers[x] \in w2.Opers
                     /\ Has(w2.Users, w2.LocalUsers[x])
                     /\ "C" \in w2.Users[w2.LocalUsers[x]].Modes}
  IN  IF Has(w2.LocalServers, s) /\ ~w2.LocalServers[s].Bursting
      THEN QueueAll(w2, IdSeq(watchers), Msg(OurName, "NOTICE", << "CLICONN", uid >>))
      ELSE w2

\* LocalServer.uidCommand
uidCommand(w, s, m) ==
  IF Len(m.Params) /= 9
  THEN LocalServer_quit(w, s, "Invalid UID command - invalid parameter count")
  ELSE IF ~isValidSID(m.Prefix) THEN LocalServer_quit(w, s, "Invalid SID")
  ELSE IF ~Has(w.Servers, m.Prefix)
  THEN LocalServer_quit(w, s, "UID message from unknown server")
  ELSE IF ~isValidUID(m.Params[8]) THEN LocalServer_quit(w, s, "Invalid UID")
  ELSE IF Has(w.Users, m.Params[8])
  THEN LocalServer_quit(w, s, "sent me UID, but I already know it!")
  ELSE IF ~ParsesAsInt(m.Params[3]) THEN LocalServer_quit(w, s, "Invalid nick TS")
  ELSE IF ~isValidNick(MaxNickLength, m.Params[1])
  THEN LocalServer_quit(w, s, "Invalid NICK!")
  ELSE IF ~isValidUser(m.Params[5]) THEN LocalServer_quit(w, s, "Invalid username")
  ELSE
    LET col == handleCollision(w, s, m.Params[8], m.Params[1], m.Params[5],
                               m.Params[6], ParseInt(m.Params[3]), "UID")
    IN  IF ~col.ok THEN col.w
        ELSE IF ~ParsesAsInt(m.Params[2]) THEN LocalServer_quit(col.w, s, "Invalid hop count")
        ELSE IF Len(m.Params[4]) > 0 /\ m.Params[4][1] /= "+"
        THEN LocalServer_quit(col.w, s, "Malformed umode")
        ELSE acceptUID(col.w, s, m, w.Servers[m.Prefix])

\* LocalServer.sidCommand
sidCommand(w, s, m) ==
  IF Len(m.Params) < 4
  THEN LocalServer_messageFromServer(w, s, "461", << "SID", "Not enough parameters" >>)
  ELSE IF ~Has(w.Servers, m.Prefix) THEN LocalServer_quit(w, s, "Unknown origin (SID)")
  ELSE IF ~ParsesAsInt(m.Params[2]) THEN LocalServer_quit(w, s, "Invalid hop count")
  ELSE IF ~isValidSID(m.Params[3]) THEN LocalServer_quit(w, s, "Invalid SID")
  ELSE IF Has(w.Servers, m.Params[3])
  THEN LocalServer_quit(w, s, "sent me SID, but I already know it!")
  ELSE IF m.Params[3] = OurSID
  THEN LocalServer_quit(w, s, "sent me SID command with my own SID!")
  ELSE
    LET oid == NewOid(w.ServerObjs)
        newServer == [ SID |-> m.Params[3], Name |-> m.Params[1],
                       Description |-> m.Params[4], HopCount |-> ParseInt(m.Params[2]), Capabs |-> {},
                       LocalServer |-> 0, LinkedTo |-> w.Servers[m.Prefix],
                       ClosestServer |-> s ]
        w1 == [w EXCEPT !.ServerObjs = Put(@, oid, newServer),
                        !.Servers = Put(@, m.Params[3], oid)]
    IN  noticeOpers(Propagate(w1, s, WithNextHop(m)), "is introducing server")

\* canonicalizeChannel: the name in lower case.
ChannelLower == [x \in {"#a", "#A", "#b", "a"} |-> IF x = "#A" THEN "#a" ELSE x]
canonicalizeChannel(name) == ChannelLower[name]

\* isValidChannel: a number sign and then letters a-z and digits.
isValidChannel(name) == name \in {"#a", "#b"}

\* A new Channel object, as sjoinCommand and joinCommand make it.
NewChannel(name, ts) ==
  [ Name |-> name, Members |-> {}, Ops |-> {}, Modes |-> {}, TS |-> ts,
    Topic |-> << >>, TopicTS |-> 0, TopicSetter |-> << >> ]

\* The channel of the name, made and put in the table when there is none:
\* the world and the object.
findOrMakeChannel(w, name, ts) ==
  IF Has(w.Channels, name) THEN [w |-> w, ch |-> w.Channels[name]]
  ELSE LET oid == NewOid(w.ChanObjs)
       IN  [w |-> [w EXCEPT !.ChanObjs = Put(@, oid, NewChannel(name, ts)),
                            !.Channels = Put(@, name, oid)],
            ch |-> oid]

\* The channel keeps the time stamp it has.
keepOwnTS(w, ch, ts) == w

\* The channel takes the older time stamp and loses its modes and ops for it.
adoptOlderTS(w, ch, ts) ==
  IF ts < w.ChanObjs[ch].TS
  THEN clearModes([w EXCEPT !.ChanObjs[ch].TS = ts], ch)
  ELSE w

\* sjoinCommand, the simple modes: n and s are set when they are accepted.
applySimpleModes(w, ch, modes, acceptModes, sourceName) ==
  LET new == (modes \cap {"n", "s"}) \ w.ChanObjs[ch].Modes
      w1 == [w EXCEPT !.ChanObjs[ch].Modes = @ \cup new]
  IN  IF acceptModes /\ new /= {}
      THEN messageLocalUsersOnChannel(w1, ch,
             Msg(sourceName, "MODE", << w.ChanObjs[ch].Name, new >>))
      ELSE w

\* The user is a member of the channel and the channel is in its map.
addMember(w, ch, uid) ==
  [w EXCEPT !.ChanObjs[ch].Members = @ \cup {uid},
            !.Users[uid].Channels = Put(@, w.ChanObjs[ch].Name, ch)]

\* sjoinCommand, the loop over the user list.  It stops at the first UID
\* that is not in Users; done tells whether it reached the end of the list.
RECURSIVE sjoinUsers(_, _, _, _, _, _)
sjoinUsers(w, ch, channelExists, acceptModes, sourceName, uids) ==
  IF uids = << >> THEN [w |-> w, done |-> TRUE]
  ELSE
    LET uid == Head(uids).uid
        opped == acceptModes /\ Head(uids).op
    IN  IF ~Has(w.Users, uid)
        THEN [w |-> IF channelExists THEN w
                    ELSE [w EXCEPT !.Channels = Remove(@, w.ChanObjs[ch].Name)],
              done |-> FALSE]
        ELSE
          LET w1 == addMember(w, ch, uid)
              w2 == IF opped THEN grantOps(w1, ch, uid) ELSE w1
              w3 == messageLocalUsersOnChannel(w2, ch,
                      Msg(w.Users[uid].DisplayNick, "JOIN", << w.ChanObjs[ch].Name >>))
              w4 == IF opped
                    THEN messageLocalUsersOnChannel(w3, ch,
                           Msg(sourceName, "MODE", << w.ChanObjs[ch].Name, "+o",
                                                      w.Users[uid].DisplayNick >>))
                    ELSE w3
          IN  sjoinUsers(w4, ch, channelExists, acceptModes, sourceName, Tail(uids))

\* LocalServer.sjoinCommand.  The user list of a message holds one UID at least.
sjoinCommand(w, s, m) ==
  IF ~Has(w.Servers, m.Prefix) THEN LocalServer_quit(w, s, "Unknown server (SJOIN)")
  ELSE IF Len(m.Params) < 4
  THEN LocalServer_messageFromServer(w, s, "461", << "SJOIN", "Not enough parameters" >>)
  ELSE IF ~ParsesAsInt(m.Params[1]) THEN LocalServer_quit(w, s, "Invalid channel TS")
  ELSE IF ~isValidChannel(canonicalizeChannel(m.Params[2]))
  THEN LocalServer_messageFromServer(w, s, "403",
         << canonicalizeChannel(m.Params[2]), "Invalid channel name" >>)
  ELSE
    LET channelTS == ParseInt(m.Params[1])
        chanName == canonicalizeChannel(m.Params[2])
        channelExists == Has(w.Channels, chanName)
        found == findOrMakeChannel(w, chanName, channelTS)
        ch == found.ch
        acceptModes == ~(channelTS > found.w.ChanObjs[ch].TS)
        sourceName == w.ServerObjs[w.Servers[m.Prefix]].Name
        w1 == adoptOlderTS(found.w, ch, channelTS)
        w2 == applySimpleModes(w1, ch, m.Params[3], acceptModes, sourceName)
        r == sjoinUsers(w2, ch, channelExists, acceptModes, sourceName,
                        m.Params[Len(m.Params)])
    IN  IF r.done THEN Propagate(r.w, s, m) ELSE r.w

\* joinCommand with the parameter 0: the user parts every channel of its map.
RECURSIVE partAll(_, _, _)
partAll(w, uid, chs) ==
  IF chs = << >> THEN w
  ELSE partAll(partUser(w, uid, Head(chs), << >>), uid, Tail(chs))

\* LocalServer.joinCommand
joinCommand(w, s, m) ==
  IF Len(m.Params) < 1
  THEN LocalServer_messageFromServer(w, s, "461", << "JOIN", "Not enough parameters" >>)
  ELSE IF ~Has(w.Users, m.Prefix) THEN LocalServer_quit(w, s, "Unknown UID (JOIN)")
  ELSE IF m.Params[1] = "0"
  THEN LET chans == w.Users[m.Prefix].Channels
       IN  Propagate(partAll(w, m.Prefix, SetSeq({chans[n] : n \in DOMAIN chans})), s, m)
  ELSE IF Len(m.Params) < 3
  THEN LocalServer_messageFromServer(w, s, "461", << "JOIN", "Not enough parameters" >>)
  ELSE IF ~ParsesAsInt(m.Params[1]) THEN LocalServer_quit(w, s, "Invalid TS (JOIN)")
  ELSE IF ~isValidChannel(canonicalizeChannel(m.Params[2]))
  THEN LocalServer_messageFromServer(w, s, "403",
         << canonicalizeChannel(m.Params[2]), "Invalid channel name" >>)
  ELSE IF m.Params[3] /= "+" THEN LocalServer_quit(w, s, "Invalid JOIN command. No +")
  ELSE
    LET channelTS == ParseInt(m.Params[1])
        found == findOrMakeChannel(w, canonicalizeChannel(m.Params[2]), channelTS)
        w1 == adoptOlderTS(found.w, found.ch, channelTS)
        w2 == addMember(w1, found.ch, m.Prefix)
        w3 == messageLocalUsersOnChannel(w2, found.ch,
                Msg(w.Users[m.Prefix].DisplayNick, "JOIN", << w2.ChanObjs[found.ch].Name >>))
    IN  Propagate(w3, s, m)

\* LocalServer.nickCommand
LocalServer_nickCommand(w, s, m) ==
  IF Len(m.Params) < 2
  THEN LocalServer_messageFromServer(w, s, "461", << "NICK", "Not enough parameters" >>)
  ELSE IF ~Has(w.Users, m.Prefix) THEN LocalServer_quit(w, s, "Unknown user (NICK)")
  ELSE IF ~ParsesAsInt(m.Params[2]) THEN LocalServer_quit(w, s, "Invalid TS (NICK)")
  ELSE IF ~isValidNick(MaxNickLength, m.Params[1])
  THEN LocalServer_quit(w, s, "Invalid nick (NICK)")
  ELSE
    LET uid == m.Prefix
        user == w.Users[uid]
        nick == m.Params[1]
        nickTS == ParseInt(m.Params[2])
        col == IF canonicalizeNick(nick) /= canonicalizeNick(user.DisplayNick)
               THEN handleCollision(w, s, uid, nick, user.Username, user.Hostname,
                                    nickTS, "NICK")
               ELSE [w |-> w, ok |-> TRUE]
        w1 == QueueAll(col.w, IdSeq(LocalPeersOf(w, uid)),
                       Msg(user.DisplayNick, "NICK", << nick >>))
        w2 == [w1 EXCEPT
                 !.Nicks = Put(Remove(@, canonicalizeNick(user.DisplayNick)),
                               canonicalizeNick(nick), uid),
                 !.Users = IF Has(@, uid)
                           THEN [@ EXCEPT ![uid].DisplayNick = nick, ![uid].NickTS = nickTS]
                           ELSE @]
    IN  IF ~col.ok THEN col.w ELSE Propagate(w2, s, m)

\* commaChannelsToChannelNames: the valid names of the list, in canonical form.
commaChannelsToChannelNames(names) ==
  SetSeq({canonicalizeChannel(names[i]) : i \in DOMAIN names} \cap {"#a", "#b"})

\* partCommand, the loop over the channel names.  It stops, and the peer is
\* delinked, at the first name that is not in the table.
RECURSIVE partEach(_, _, _, _, _)
partEach(w, s, uid, names, msg) ==
  IF names = << >> THEN [w |-> w, done |-> TRUE]
  ELSE IF ~Has(w.Channels, Head(names))
  THEN [w |-> LocalServer_quit(w, s, "Unknown channel (PART)"), done |-> FALSE]
  ELSE partEach(partUser(w, uid, w.Channels[Head(names)], msg), s, uid, Tail(names), msg)

\* LocalServer.partCommand
partCommand(w, s, m) ==
  IF Len(m.Params) < 1
  THEN LocalServer_messageFromServer(w, s, "461", << "PART", "Not enough parameters" >>)
  ELSE IF ~Has(w.Users, m.Prefix) THEN LocalServer_quit(w, s, "Unknown user (PART)")
  ELSE
    LET r == partEach(w, s, m.Prefix, commaChannelsToChannelNames(m.Params[1]),
                      IF Len(m.Params) > 1 THEN m.Params[2] ELSE << >>)
    IN  IF r.done THEN Propagate(r.w, s, m) ELSE r.w

\* LocalServer.quitCommand
quitCommand(w, s, m) ==
  IF ~Has(w.Users, m.Prefix) THEN LocalServer_quit(w, s, "Unknown user (QUIT)")
  ELSE Propagate(quitRemoteUser(w, m.Prefix,
                   IF Len(m.Params) >= 1 THEN m.Params[1] ELSE << >>), s, m)

\* A kill reason is a path, a space and a text in parentheses.
WellFormedKillReason(r) == r = "path (reason)"

\* LocalServer.killCommand
killCommand(w, s, m) ==
  IF Len(m.Params) < 2
  THEN LocalServer_messageFromServer(w, s, "461", << "KILL", "Not enough parameters" >>)
  ELSE IF ~Has(w.Users, m.Prefix) /\ ~Has(w.Servers, m.Prefix)
  THEN noticeOpers(w, "Received KILL from unknown source")
  ELSE IF ~Has(w.Users, m.Params[1])
  THEN noticeOpers(w, "Received KILL for unknown user")
  ELSE IF ~WellFormedKillReason(m.Params[2])
  THEN LocalServer_quit(w, s, "Malformed kill reason")
  ELSE Propagate(killUser(noticeOpers(w, "Received KILL message"),
                          m.Params[1], "Killed"), s, m)

\* LocalServer.squitCommand
squitCommand(w, s, m) ==
  IF Len(m.Params) < 2
  THEN LocalServer_messageFromServer(w, s, "461", << "SQUIT", "Not enough parameters" >>)
  ELSE IF ~Has(w.Servers, m.Params[1])
  THEN LocalServer_quit(w, s, "issued SQUIT for unknown server")
  ELSE
    LET target == w.Servers[m.Params[1]]
        targetServer == w.ServerObjs[target]
    IN  IF Has(w.Users, m.Prefix)
        THEN IF m.Prefix \notin w.Opers
             THEN LocalServer_quit(w, s, "SQUIT from non-operator")
             ELSE IF User_isLocal(w.Users[m.Prefix])
             THEN LocalServer_quit(w, s, "SQUIT from local operator")
             ELSE IF Server_isLocal(targetServer)
             THEN LocalServer_quit(w, targetServer.LocalServer, "issued SQUIT")
             ELSE maybeQueueMessage(w, targetServer.ClosestServer, m)
        ELSE IF ~Has(w.Servers, m.Prefix)
        THEN LocalServer_quit(w, s, "SQUIT from unknown server")
        ELSE IF Server_isLocal(targetServer)
        THEN LocalServer_quit(w, s, "asked me to SQUIT local server")
        ELSE noticeOpers(Propagate(serverSplitCleanUp(w, s, target), s, m), "delinked")

\* Channel.removeOps
removeOps(w, ch, uid) == [w EXCEPT !.ChanObjs[ch].Ops = @ \ {uid}]

\* User.onChannel: the Channels map of the user has the name of the channel.
onChannel(w, u, ch) == Has(u.Channels, w.ChanObjs[ch].Name)

\* tmodeCommand, the loop over the characters of the mode changes.  st holds
\* the action in force, the index of the next parameter and what was applied
\* so far; a missing parameter, an unknown user and a user that is not on
\* the channel end the loop.
RECURSIVE tmodeChanges(_, _, _, _, _)
tmodeChanges(w, ch, m, chars, st) ==
  IF chars = << >> THEN [w |-> w, st |-> st]
  ELSE LET char == Head(chars) IN
    IF char \in {"+", "-"}
    THEN tmodeChanges(w, ch, m, Tail(chars), [st EXCEPT !.action = char])
    ELSE IF char /= "o" THEN tmodeChanges(w, ch, m, Tail(chars), st)
    ELSE IF st.paramIndex > Len(m.Params) THEN [w |-> w, st |-> st]
    ELSE LET uid == m.Params[st.paramIndex]
             st1 == [st EXCEPT !.paramIndex = @ + 1] IN
      IF ~Has(w.Users, uid) THEN [w |-> w, st |-> st1]
      ELSE IF ~onChannel(w, w.Users[uid], ch) THEN [w |-> w, st |-> st1]
      ELSE IF (st.action = "+") = userHasOps(w.ChanObjs[ch], uid)
      THEN tmodeChanges(w, ch, m, Tail(chars), st1)
      ELSE LET w1 == IF st.action = "+" THEN grantOps(w, ch, uid)
                     ELSE removeOps(w, ch, uid)
               modes == IF st.appliedAction /= st.action
                        THEN st.appliedModes \o << st.action, char >>
                        ELSE Append(st.appliedModes, char)
           IN  tmodeChanges(w1, ch, m, Tail(chars),
                 [st1 EXCEPT !.appliedAction = st.action,
                             !.appliedModes = modes,
                             !.appliedParams = Append(@, w.Users[uid].DisplayNick)])

\* LocalServer.tmodeCommand
tmodeCommand(w, s, m) ==
  IF Len(m.Params) < 3
  THEN LocalServer_messageFromServer(w, s, "461", << "TMODE", "Not enough parameters" >>)
  ELSE IF ~Has(w.Users, m.Prefix) /\ ~Has(w.Servers, m.Prefix)
  THEN LocalServer_quit(w, s, "Unknown origin (TMODE)")
  ELSE IF ~ParsesAsInt(m.Params[1])
  THEN LocalServer_quit(w, s, "Invalid channel TS")
  ELSE IF ~Has(w.Channels, canonicalizeChannel(m.Params[2]))
  THEN LocalServer_quit(w, s, "Unknown channel (TMODE)")
  ELSE LET ch == w.Channels[canonicalizeChannel(m.Params[2])]
           origin == IF Has(w.Users, m.Prefix) THEN w.Users[m.Prefix].DisplayNick
                     ELSE w.ServerObjs[w.Servers[m.Prefix]].Name
       IN  IF ParseInt(m.Params[1]) > w.ChanObjs[ch].TS THEN w
           ELSE LET r == tmodeChanges(w, ch, m, m.Params[3],
                           [action |-> "+", paramIndex |-> 4, appliedAction |-> " ",
                            appliedModes |-> << >>, appliedParams |-> << >>])
                    told == IF r.st.appliedModes = << >> THEN r.w
                            ELSE messageLocalUsersOnChannel(r.w, ch,
                                   Msg(origin, "MODE",
                                       << w.ChanObjs[ch].Name, r.st.appliedModes >>
                                       \o r.st.appliedParams))
                IN  Propagate(told, s, m)

\* modeCommand, the loop over the characters of the mode changes: the modes
\* i, o and C are set or taken, and Opers follows the mode o.
RECURSIVE umodeChanges(_, _, _, _)
umodeChanges(w, uid, chars, motion) ==
  IF chars = << >> THEN w
  ELSE LET c == Head(chars) IN
    IF c \in {"+", "-"} THEN umodeChanges(w, uid, Tail(chars), c)
    ELSE IF c \notin {"i", "o", "C"} THEN umodeChanges(w, uid, Tail(chars), motion)
    ELSE IF motion = "+"
    THEN LET w1 == [w EXCEPT !.Users[uid].Modes = @ \cup {c}]
             w2 == IF c = "o"
                   THEN noticeOpers([w1 EXCEPT !.Opers = @ \cup {uid}], "became an operator")
                   ELSE w1
         IN  umodeChanges(w2, uid, Tail(chars), motion)
    ELSE IF c \in w.Users[uid].Modes
    THEN LET w1 == [w EXCEPT !.Users[uid].Modes = @ \ {c}]
             w2 == IF c = "o" THEN [w1 EXCEPT !.Opers = @ \ {uid}] ELSE w1
         IN  umodeChanges(w2, uid, Tail(chars), motion)
    ELSE umodeChanges(w, uid, Tail(chars), motion)

\* LocalServer.modeCommand
modeCommand(w, s, m) ==
  IF Len(m.Params) < 2 THEN w
  ELSE IF ~Has(w.Users, m.Prefix) THEN LocalServer_quit(w, s, "Unknown prefix (MODE)")
  ELSE IF ~Has(w.Users, m.Params[1]) THEN w
  ELSE IF m.Params[1] /= m.Prefix
  THEN LocalServer_quit(w, s, "Invalid MODE: User changing another's mode")
  ELSE Propagate(umodeChanges(w, m.Prefix, m.Params[2], "+"), s, m)

\* LocalServer.topicCommand.  The topics of the model are shorter than
\* maxTopicLength, so none is cut.
topicCommand(w, s, m, now) ==
  IF Len(m.Params) < 1
  THEN LocalServer_messageFromServer(w, s, "461", << "TOPIC", "Not enough parameters" >>)
  ELSE IF ~Has(w.Users, m.Prefix)
  THEN LocalServer_quit(w, s, "Unknown source user (TOPIC)")
  ELSE IF ~Has(w.Channels, canonicalizeChannel(m.Params[1]))
  THEN LocalServer_messageFromServer(w, s, "403",
         << canonicalizeChannel(m.Params[1]), "No such channel" >>)
  ELSE LET ch == w.Channels[canonicalizeChannel(m.Params[1])]
           topic == IF Len(m.Params) >= 2 THEN m.Params[2] ELSE << >>
           w1 == [w EXCEPT !.ChanObjs[ch].Topic = topic,
                           !.ChanObjs[ch].TopicTS = now,
                           !.ChanObjs[ch].TopicSetter = w.Users[m.Prefix].DisplayNick]
           params == IF Len(topic) > 0 THEN << w.ChanObjs[ch].Name, topic >>
                     ELSE << w.ChanObjs[ch].Name >>
       IN  Propagate(messageLocalUsersOnChannel(w1, ch,
                       Msg(w.Users[m.Prefix].DisplayNick, "TOPIC", params)), s, m)

\* tbCommand that takes a topic that is as old as the one of the channel.
tbCommandNotNewer(w, s, m) ==
  IF Len(m.Params) < 3
  THEN LocalServer_messageFromServer(w, s, "461", << "TB", "Not enough parameters" >>)
  ELSE IF ~Has(w.Servers, m.Prefix) THEN LocalServer_quit(w, s, "Unknown server (TB)")
  ELSE IF ~Has(w.Channels, canonicalizeChannel(m.Params[1]))
  THEN LocalServer_quit(w, s, "Unknown channel (TB)")
  ELSE IF ~ParsesAsInt(m.Params[2]) THEN LocalServer_quit(w, s, "Invalid topic TS (TB)")
  ELSE LET ch == w.Channels[canonicalizeChannel(m.Params[1])]
           channel == w.ChanObjs[ch]
           topicTS == ParseInt(m.Params[2])
           name == w.ServerObjs[w.Servers[m.Prefix]].Name
           setter == IF Len(m.Params) >= 4 THEN m.Params[3] ELSE << name >>
           topic == IF Len(m.Params) >= 4 THEN m.Params[4] ELSE m.Params[3]
       IN  IF topic = channel.Topic THEN w
           ELSE IF ~(Len(channel.Topic) = 0 \/ topicTS <= channel.TopicTS) THEN w
           ELSE LET w1 == [w EXCEPT !.ChanObjs[ch].Topic = topic,
                                    !.ChanObjs[ch].TopicSetter = setter,
                                    !.ChanObjs[ch].TopicTS = topicTS]
                IN  Propagate(messageLocalUsersOnChannel(w1, ch,
                                Msg(name, "TOPIC", << channel.Name, topic >>)), s, m)

\* LocalServer.tbCommand
tbCommand(w, s, m) ==
  IF Len(m.Params) < 3
  THEN LocalServer_messageFromServer(w, s, "461", << "TB", "Not enough parameters" >>)
  ELSE IF ~Has(w.Servers, m.Prefix) THEN LocalServer_quit(w, s, "Unknown server (TB)")
  ELSE IF ~Has(w.Channels, canonicalizeChannel(m.Params[1]))
  THEN LocalServer_quit(w, s, "Unknown channel (TB)")
  ELSE IF ~ParsesAsInt(m.Params[2]) THEN LocalServer_quit(w, s, "Invalid topic TS (TB)")
  ELSE LET ch == w.Channels[canonicalizeChannel(m.Params[1])]
           channel == w.ChanObjs[ch]
           topicTS == ParseInt(m.Params[2])
           name == w.ServerObjs[w.Servers[m.Prefix]].Name
           setter == IF Len(m.Params) >= 4 THEN m.Params[3] ELSE << name >>
           topic == IF Len(m.Params) >= 4 THEN m.Params[4] ELSE m.Params[3]
       IN  IF topic = channel.Topic THEN w
           ELSE IF ~(Len(channel.Topic) = 0 \/ topicTS < channel.TopicTS) THEN w
           ELSE LET w1 == [w EXCEPT !.ChanObjs[ch].Topic = topic,
                                    !.ChanObjs[ch].TopicSetter = setter,
                                    !.ChanObjs[ch].TopicTS = topicTS]
                IN  Propagate(messageLocalUsersOnChannel(w1, ch,
                                Msg(name, "TOPIC", << channel.Name, topic >>)), s, m)

\* LocalServer.awayCommand
awayCommand(w, s, m) ==
  LET reason == IF Len(m.Params) > 0 THEN m.Params[1] ELSE << >> IN
  IF ~Has(w.Users, m.Prefix) THEN LocalServer_quit(w, s, "Unknown user (AWAY)")
  ELSE IF Len(reason) = 0 /\ Len(w.Users[m.Prefix].AwayMessage) = 0 THEN w
  ELSE Propagate([w EXCEPT !.Users[m.Prefix].AwayMessage = reason], s, m)

\* The local users of a sequence of sessions are told 465 and quit.
RECURSIVE banLocalUsers(_, _, _)
banLocalUsers(w, cs, reason) ==
  IF cs = << >> THEN w
  ELSE LET uid == w.LocalUsers[Head(cs)]
           w1 == maybeQueueMessage(w, Head(cs), Msg(OurName, "465",
                   << w.Users[uid].DisplayNick, "You are banned from this server" >>))
       IN  banLocalUsers(LocalUser_quit(w1, uid, << "Connection closed", reason >>),
                         Tail(cs), reason)

\* Catbox.addAndApplyKLine: the ban is added and the local users it matches
\* are disconnected.
addAndApplyKLine(w, kline, source) ==
  LET hit == {c \in DOMAIN w.LocalUsers :
                /\ Has(w.Users, w.LocalUsers[c])
                /\ matchesMask(w.Users[w.LocalUsers[c]], kline.UserMask, kline.HostMask)}
      w1 == [w EXCEPT !.KLines = Append(@, kline)]
  IN  noticeOpers(banLocalUsers(w1, IdSeq(hit), kline.Reason), "K-Line added")

\* Catbox.removeKLine: the bans with these masks are removed.
removeKLine(w, userMask, hostMask) ==
  [w EXCEPT !.KLines =
     SelectSeq(@, LAMBDA k : ~(k.UserMask = userMask /\ k.HostMask = hostMask))]

\* The name of the source of a KLINE or an UNKLINE: a user or a server; the
\* empty name when the prefix is neither.
BanSource(w, prefix) ==
  IF Has(w.Users, prefix) THEN w.Users[prefix].DisplayNick
  ELSE IF Has(w.Servers, prefix) THEN << w.ServerObjs[w.Servers[prefix]].Name >>
  ELSE << >>

\* LocalServer.klineCommand
klineCommand(w, s, m) ==
  IF Len(m.Params) < 3
  THEN LocalServer_messageFromServer(w, s, "461", << "KLINE", "Not enough parameters" >>)
  ELSE IF BanSource(w, m.Prefix) = << >> THEN w
  ELSE addAndApplyKLine(w,
         [ UserMask |-> m.Params[2], HostMask |-> m.Params[3],
           Reason |-> IF Len(m.Params) > 3 THEN m.Params[4] ELSE "<No reason given>" ],
         BanSource(w, m.Prefix))

\* LocalServer.unklineCommand
unklineCommand(w, s, m) ==
  IF Len(m.Params) < 2
  THEN LocalServer_messageFromServer(w, s, "461", << "UNKLINE", "Not enough parameters" >>)
  ELSE IF BanSource(w, m.Prefix) = << >> THEN w
  ELSE removeKLine(w, m.Params[1], m.Params[2])

\* LocalServer.gcapCommand.  A Server without capabilities (nil in the code)
\* has the empty set.
gcapCommand(w, s, m) ==
  IF Len(m.Params) = 0 THEN LocalServer_quit(w, s, "GCAP with no capabs")
  ELSE IF ~Has(w.Servers, m.Prefix) THEN LocalServer_quit(w, s, "Unknown server (GCAP)")
  ELSE LET capabs == parseCapabsString(m.Params[1])
           o == w.Servers[m.Prefix]
       IN  IF "QS" \notin capabs THEN LocalServer_quit(w, s, "is missing capab QS")
           ELSE IF "ENCAP" \notin capabs
           THEN LocalServer_quit(w, s, "is missing capab ENCAP")
           ELSE IF w.ServerObjs[o].Capabs /= {}
           THEN LocalServer_quit(w, s, "Already received GCAP")
           ELSE [w EXCEPT !.ServerObjs[o].Capabs = capabs]

\* strings.ToUpper on the subcommands of the model.
ToUpperSubCommand(t) ==
  IF t = "kline" THEN "KLINE" ELSE IF t = "gcap" THEN "GCAP" ELSE t

\* LocalServer.encapCommand: the subcommand is carried out when it is one we
\* know, and the message goes to every other peer in any case.
encapCommand(w, s, m) ==
  IF Len(m.Params) < 2
  THEN LocalServer_messageFromServer(w, s, "461", << "ENCAP", "Not enough parameters" >>)
  ELSE LET subCommand == ToUpperSubCommand(m.Params[2])
           sub == Msg(m.Prefix, subCommand, SubSeq(m.Params, 3, Len(m.Params)))
           w1 == IF subCommand = "KLINE" THEN klineCommand(w, s, sub)
                 ELSE IF subCommand = "UNKLINE" THEN unklineCommand(w, s, sub)
                 ELSE IF subCommand = "GCAP" THEN gcapCommand(w, s, sub)
                 ELSE w
       IN  Propagate(w1, s, m)

\* User.nickUhost: nick!user@host.
nickUhost(u) == << u.DisplayNick, "!", u.Username, "@", u.Hostname >>

\* The local servers a message for the remote members of a channel goes to:
\* the closest server of each, except the link the message came on.
toServers(w, s, ch) ==
  { w.Users[x].ClosestServer :
      x \in { y \in w.ChanObjs[ch].Members :
                /\ Has(w.Users, y)
                /\ ~User_isLocal(w.Users[y])
                /\ w.Users[y].ClosestServer /= s } }

\* LocalServer.privmsgCommand, for PRIVMSG and NOTICE.  The quit for an
\* unknown source is not followed by a return: the handler goes on in the
\* world the quit left, with an empty source.
privmsgCommand(w, s, m) ==
  IF Len(m.Params) = 0
  THEN LocalServer_messageFromServer(w, s, "411", << "No recipient given (PRIVMSG)" >>)
  ELSE IF Len(m.Params) = 1
  THEN LocalServer_messageFromServer(w, s, "412", << "No text to send" >>)
  ELSE
    LET fromServer == m.Command = "NOTICE" /\ Has(w.Servers, m.Prefix)
        fromUser == ~fromServer /\ Has(w.Users, m.Prefix)
        source == IF fromServer THEN w.ServerObjs[w.Servers[m.Prefix]].Name
                  ELSE IF fromUser THEN nickUhost(w.Users[m.Prefix])
                  ELSE ""
        w1 == IF fromServer \/ fromUser THEN w
              ELSE LocalServer_quit(w, s, "Unknown source")
        target == m.Params[1]
        name == IF target \in DOMAIN ChannelLower THEN canonicalizeChannel(target)
                ELSE target
    IN  IF isValidUID(target) /\ Has(w1.Users, target)
        THEN IF User_isLocal(w1.Users[target])
             THEN maybeQueueMessage(w1, w1.Users[target].Local,
                    Msg(source, m.Command,
                        [m.Params EXCEPT ![1] = w1.Users[target].DisplayNick]))
             ELSE maybeQueueMessage(w1, w1.Users[target].ClosestServer, m)
        ELSE IF ~Has(w1.Channels, name) THEN w1
        ELSE LET ch == w1.Channels[name]
                 w2 == messageLocalUsersOnChannel(w1, ch,
                         Msg(source, m.Command, m.Params))
             IN  QueueAll(w2, IdSeq(toServers(w1, s, ch)), m)

\* LocalServer.numericCommand
numericCommand(w, s, m) ==
  IF ~Has(w.Servers, m.Prefix) THEN w
  ELSE IF Len(m.Params) = 0 THEN w
  ELSE IF ~Has(w.Users, m.Params[1]) THEN w
  ELSE LET user == w.Users[m.Params[1]] IN
       IF User_isLocal(user)
       THEN maybeQueueMessage(w, user.Local,
              Msg(w.ServerObjs[w.Servers[m.Prefix]].Name, m.Command,
                  << user.DisplayNick >> \o Tail(m.Params)))
       ELSE maybeQueueMessage(w, user.ClosestServer, m)

\* LocalServer.inviteCommand
inviteCommand(w, s, m) ==
  IF Len(m.Params) < 2
  THEN LocalServer_messageFromServer(w, s, "461", << "INVITE", "Not enough parameters" >>)
  ELSE IF ~Has(w.Users, m.Prefix)
  THEN LocalServer_quit(w, s, "Unknown source user (INVITE)")
  ELSE IF ~Has(w.Users, m.Params[1])
  THEN LocalServer_quit(w, s, "Unknown target user (INVITE)")
  ELSE IF ~Has(w.Channels, canonicalizeChannel(m.Params[2]))
  THEN LocalServer_quit(w, s, "Unknown channel (INVITE)")
  ELSE IF Len(m.Params) >= 3 /\ ~ParsesAsInt(m.Params[3])
  THEN LocalServer_quit(w, s, "Invalid channel TS")
  ELSE LET channel == w.ChanObjs[w.Channels[canonicalizeChannel(m.Params[2])]]
           targetUser == w.Users[m.Params[1]]
       IN  IF Len(m.Params) >= 3 /\ ParseInt(m.Params[3]) > channel.TS
           THEN noticeOpers(w, "INVITE has newer TS")
           ELSE IF User_isLocal(targetUser)
           THEN maybeQueueMessage(w, targetUser.Local,
                  Msg(nickUhost(w.Users[m.Prefix]), "INVITE",
                      << targetUser.DisplayNick, channel.Name >>))
           ELSE maybeQueueMessage(w, targetUser.ClosestServer, m)

\* LocalServer.handleMessage, its first step: a message without a prefix gets
\* the SID of the peer.  The dispatch on the command that follows is the
\* choice of the action.
WithPrefix(w, s, m) ==
  IF m.Prefix = ""
  THEN [m EXCEPT !.Prefix = w.ServerObjs[w.LocalServers[s].Server].SID]
  ELSE m

-----------------------------------------------------------------------------
(* The state machine.  Every action applies one handler of the dispatcher to
   the world and installs the world it returns. *)

\* Heap objects nothing points to any more are dropped.
RECURSIVE LiveServers(_, _)
LiveServers(w, S) ==
  LET T == S \cup ({w.ServerObjs[o].LinkedTo : o \in S} \ {0})
  IN  IF T = S THEN S ELSE LiveServers(w, T)

Collect(w) ==
  LET roots == {w.Servers[sid] : sid \in DOMAIN w.Servers}
               \cup {w.LocalServers[c].Server : c \in DOMAIN w.LocalServers}
               \cup ({w.Users[u].Server : u \in DOMAIN w.Users} \ {0})
      liveS == LiveServers(w, roots)
      liveC == {w.Channels[n] : n \in DOMAIN w.Channels}
               \cup UNION {{w.Users[u].Channels[n] : n \in DOMAIN w.Users[u].Channels} :
                           u \in DOMAIN w.Users}
  IN  [w EXCEPT !.ServerObjs = [o \in liveS |-> @[o]],
                !.ChanObjs = [o \in liveC |-> @[o]]]

InstallLinked(w0, r) ==
  \E w \in {w0} : \E v \in {Collect(w)} :
  /\ LocalClients' = v.LocalClients
  /\ LocalUsers' = v.LocalUsers
  /\ LocalServers' = v.LocalServers
  /\ Servers' = v.Servers
  /\ ServerObjs' = v.ServerObjs
  /\ Users' = v.Users
  /\ Nicks' = v.Nicks
  /\ Opers' = v.Opers
  /\ Channels' = v.Channels
  /\ ChanObjs' = v.ChanObjs
  /\ KLines' = v.KLines
  /\ closed' = v.closed
  /\ nextID' = v.nextID
  /\ out' = v.out
  /\ last' = v.last
  /\ accepted' = v.accepted
  /\ remote' = r
  /\ UNCHANGED << WriteChan, SendQueueExceeded >>
  /\ UNCHANGED ioVars

\* The world a handler returned becomes the state; the other end of the link
\* is not touched.
Install(w0) == InstallLinked(w0, remote)

\* The world at the start of a step: nothing queued yet, the event recorded.
Begin(c, m) == [W EXCEPT !.out = << >>, !.last = [c |-> c, m |-> m]]

Times == {100}

\* The world after construction.
World0 ==
  [ LocalClients |-> EmptyMap, LocalUsers |-> EmptyMap, LocalServers |-> EmptyMap,
    Servers |-> EmptyMap, ServerObjs |-> EmptyMap, Users |-> EmptyMap,
    Nicks |-> EmptyMap, Opers |-> {}, Channels |-> EmptyMap, ChanObjs |-> EmptyMap,
    KLines |-> << >>,
    closed |-> EmptyMap, nextID |-> 1, out |-> << >>,
    last |-> [c |-> 0, m |-> Msg("", "", << >>)], accepted |-> EmptyMap ]

\* No server at the other end is part of the model.
NoRemote == [world |-> World0, toRemote |-> << >>, toUs |-> << >>]

\* No loop over members is followed by itself.
NoPacking == [tsLength |-> 0, nameLength |-> 0, members |-> << >>, ops |-> {},
              next |-> 1, uids |-> << >>, sent |-> << >>, done |-> TRUE]

\* The readers and writers of the sessions are not part of the model.
NoWorkers ==
  /\ ShutdownChan = "open"
  /\ ToServerChan = << >>
  /\ Conn = EmptyMap
  /\ readLoop = EmptyMap
  /\ writeLoop = EmptyMap

NoIO == NoWorkers /\ packing = NoPacking

Init ==
  /\ LocalClients = EmptyMap
  /\ LocalUsers = EmptyMap
  /\ LocalServers = EmptyMap
  /\ Servers = EmptyMap
  /\ ServerObjs = EmptyMap
  /\ Users = EmptyMap
  /\ Nicks = EmptyMap
  /\ Opers = {}
  /\ Channels = EmptyMap
  /\ ChanObjs = EmptyMap
  /\ KLines = << >>
  /\ closed = EmptyMap
  /\ nextID = 1
  /\ out = << >>
  /\ last = [c |-> 0, m |-> Msg("", "", << >>)]
  /\ accepted = EmptyMap
  /\ WriteChan = EmptyMap
  /\ SendQueueExceeded = EmptyMap
  /\ remote = NoRemote
  /\ NoIO

\* A session is accepted: a LocalClient with the next connection id.
newClient(w) ==
  [w EXCEPT !.LocalClients = Put(@, w.nextID, NewLocalClient(w.nextID)),
            !.closed = Put(@, w.nextID, 0),
            !.accepted = Put(@, w.nextID, << >>),
            !.nextID = @ + 1]

Accepted ==
  /\ nextID <= MaxConns
  /\ Install(newClient(Begin(nextID, Msg("", "accept", << >>))))

\* We connect to a configured server and introduce ourselves at once.
ConnectOut ==
  /\ nextID <= MaxConns
  /\ \E name \in DOMAIN ConfigServers :
       Install(sendServerIntro(newClient(Begin(nextID, Msg("", "connect", << name >>))),
                               nextID, ConfigServers[name]))

\* The reader of a connection that has not registered fails.
DeadClient ==
  \E c \in DOMAIN LocalClients :
    Install(LocalClient_quit(Begin(c, Msg("", "dead", << >>)), c, "I/O error"))

\* A message arrives on a connection that has not registered.
ClientMessage(c, m) ==
  /\ c \in DOMAIN LocalClients
  /\ \E now \in Times : Install(LocalClient_handleMessage(Begin(c, m), c, m, now))

\* The well-formed inputs of the handshake: a message with the number of
\* parameters its handler requires, right or wrong in its content.
PassInputs ==
  { << p, "TS", "6", sid >> : p \in {"pw2", "pw3"}, sid \in {"002", "003"} }
  \cup { << "pw2", "XX", "6", "002" >>, << "pw2", "TS", "5", "002" >>,
         << "pw2", "TS", "6", "001" >>, << "pw2", "TS", "6", "2" >> }
CapabInputs == { << << "QS", "ENCAP", "TB" >> >>, << << "QS" >> >> }
ServerInputs ==
  { << n, h, "desc" >> : n \in {"irc2", "irc3", "irc9"}, h \in {"1", "2"} }
SvinfoInputs ==
  { << "6", "6", "0", "100" >>, << "6", "6", "0", "161" >>, << "6", "5", "0", "100" >> }
\* Well-formed messages in other spellings, and at the edges of the checks.
VariantInputs ==
  { Msg("", "PASS", << "pw2", "TS", "06", "002" >>),
    Msg("", "PASS", << "pw2", "TS", "x", "002" >>),
    Msg("", "CAPAB", << << "encap", "", "qs" >> >>),
    Msg("", "CAPAB", << << "ENCAP", "TB" >> >>),
    Msg("", "SVINFO", << "06", "6", "0", "100" >>),
    Msg("", "SVINFO", << "6", "6", "1", "100" >>),
    Msg("", "SVINFO", << "6", "6", "0", "x" >>) }
  \cup { Msg("", "SVINFO", << "6", "6", "0", t >>) : t \in {"160", "40", "39"} }
\* Handshake messages with too few parameters.
ShortInputs ==
  { Msg("", "PASS", << "pw2", "TS", "6" >>), Msg("", "CAPAB", << >>),
    Msg("", "SERVER", << "irc2", "1" >>), Msg("", "SVINFO", << "6", "6", "0" >>) }
\* CAP is ignored; a command that needs registration gets 451.
OtherInputs == { Msg("", "CAP", << "LS" >>), Msg("", "JOIN", << "#a" >>) }

RecvPASS ==
  \E c \in DOMAIN LocalClients, ps \in PassInputs : ClientMessage(c, Msg("", "PASS", ps))
RecvCAPAB ==
  \E c \in DOMAIN LocalClients, ps \in CapabInputs : ClientMessage(c, Msg("", "CAPAB", ps))
RecvSERVER ==
  \E c \in DOMAIN LocalClients, ps \in ServerInputs : ClientMessage(c, Msg("", "SERVER", ps))
RecvSVINFO ==
  \E c \in DOMAIN LocalClients, ps \in SvinfoInputs : ClientMessage(c, Msg("", "SVINFO", ps))
RecvERROR ==
  \E c \in DOMAIN LocalClients : ClientMessage(c, Msg("", "ERROR", << "bye" >>))
RecvPrefixed ==
  \E c \in DOMAIN LocalClients : ClientMessage(c, Msg("x", "PASS", << >>))
RecvShort ==
  \E c \in DOMAIN LocalClients, m \in ShortInputs : ClientMessage(c, m)
RecvVariant ==
  \E c \in DOMAIN LocalClients, m \in VariantInputs : ClientMessage(c, m)
RecvOther ==
  \E c \in DOMAIN LocalClients, m \in OtherInputs : ClientMessage(c, m)

\* The first connection of the server, accepted or made by us.
FirstAccepted == nextID = 1 /\ Accepted
FirstConnectOut == nextID = 1 /\ ConnectOut

\* One connection under every input of the handshake.
NextHandshake ==
  \/ FirstAccepted
  \/ FirstConnectOut
  \/ DeadClient
  \/ RecvPASS
  \/ RecvCAPAB
  \/ RecvSERVER
  \/ RecvSVINFO
  \/ RecvERROR
  \/ RecvPrefixed
  \/ RecvShort
  \/ RecvVariant
  \/ RecvOther

SpecHandshake == Init /\ [][NextHandshake]_vars

\* SVINFO with the time of the peer behind and ahead of ours, by the maximum
\* skew and by one second more, and with our time.
SkewInputs ==
  { << "6", "6", "0", "39" >>, << "6", "6", "0", "40" >>, << "6", "6", "0", "100" >>,
    << "6", "6", "0", "160" >>, << "6", "6", "0", "161" >> }
RecvSkewSVINFO ==
  \E c \in DOMAIN LocalClients, ps \in SkewInputs : ClientMessage(c, Msg("", "SVINFO", ps))

\* One connection, accepted or made by us, through the handshake.
NextSkew ==
  \/ FirstAccepted
  \/ FirstConnectOut
  \/ RecvPASS
  \/ RecvCAPAB
  \/ RecvSERVER
  \/ RecvSkewSVINFO

SpecSkew == Init /\ [][NextSkew]_vars

\* Up to MaxConns connections racing through the handshake with well-formed
\* messages.
NextLink ==
  \/ Accepted
  \/ ConnectOut
  \/ DeadClient
  \/ RecvPASS
  \/ RecvCAPAB
  \/ RecvSERVER
  \/ RecvSVINFO
  \/ RecvERROR
  \/ RecvPrefixed

SpecLink == Init /\ [][NextLink]_vars

-----------------------------------------------------------------------------
(* User registration: up to MaxConns connections sending NICK and USER. *)

NickInputs ==
  { << << "a" >> >>, << << "A" >> >>, << << "1" >> >>,
    << << "a", "[", "x", "y" >> >> , << >> }
UserInputs ==
  { << << "u" >>, "0", "*", "real" >>, << << "." >>, "0", "*", "real" >>,
    << << "u" >>, "0", "*" >> }

RecvNICK ==
  \E c \in DOMAIN LocalClients, ps \in NickInputs : ClientMessage(c, Msg("", "NICK", ps))
RecvUSER ==
  \E c \in DOMAIN LocalClients, ps \in UserInputs : ClientMessage(c, Msg("", "USER", ps))

NextUser ==
  \/ Accepted
  \/ DeadClient
  \/ RecvNICK
  \/ RecvUSER
  \/ RecvERROR
  \/ RecvOther

SpecUser == Init /\ [][NextUser]_vars

\* The messages that are ignored before registration.
IgnoredInputs == { Msg("", "CAP", << "LS" >>), Msg("", "NOTICE", << "*", "hello" >>) }
RecvIgnored ==
  \E c \in DOMAIN LocalClients, m \in IgnoredInputs : ClientMessage(c, m)

\* One connection that is slow to register: it sends NICK and USER, right or
\* wrong, among messages that are ignored, refused or carry a prefix.
NextPreRegister ==
  \/ FirstAccepted
  \/ DeadClient
  \/ RecvNICK
  \/ RecvUSER
  \/ RecvIgnored
  \/ RecvOther
  \/ RecvPrefixed

SpecPreRegister == Init /\ [][NextPreRegister]_vars

-----------------------------------------------------------------------------
(* The network: linked peers send server-to-server messages.  The initial
   states of the specifications of the network are built by the handlers of
   the handshake themselves, from the state after construction. *)

\* The state is the world w; the write channels are not looked at.
IsWorld(w) ==
  /\ WriteChan = EmptyMap
  /\ SendQueueExceeded = EmptyMap
  /\ remote = NoRemote
  /\ NoIO
  /\ LocalClients = w.LocalClients
  /\ LocalUsers = w.LocalUsers
  /\ LocalServers = w.LocalServers
  /\ Servers = w.Servers
  /\ ServerObjs = w.ServerObjs
  /\ Users = w.Users
  /\ Nicks = w.Nicks
  /\ Opers = w.Opers
  /\ Channels = w.Channels
  /\ ChanObjs = w.ChanObjs
  /\ KLines = w.KLines
  /\ closed = w.closed
  /\ nextID = w.nextID
  /\ out = w.out
  /\ last = w.last
  /\ accepted = w.accepted

\* The world after connection c sent message m to world w.
After(w, c, m) ==
  Collect(LocalClient_handleMessage(
            [w EXCEPT !.out = << >>, !.last = [c |-> c, m |-> m]], c, m, 100))

\* The worlds the first connection leaves as it goes through the handshake
\* of the configured server irc2 with the SID 002.
PeerSentPASS ==
  After(newClient(World0), 1, Msg("", "PASS", << "pw2", "TS", "6", "002" >>))
PeerSentCAPAB == After(PeerSentPASS, 1, Msg("", "CAPAB", << << "QS", "ENCAP", "TB" >> >>))
PeerSentSERVER == After(PeerSentCAPAB, 1, Msg("", "SERVER", << "irc2", "1", "desc" >>))
PeerLinked == After(PeerSentSERVER, 1, Msg("", "SVINFO", << "6", "6", "0", "100" >>))

\* The world in which a second connection sent its PASS, with the same SID,
\* after the first did and before either went on.
RacingPeers ==
  After(newClient(PeerSentPASS), 2, Msg("", "PASS", << "pw3", "TS", "6", "002" >>))

\* A PING of the peer for us, or a PONG for our SID, on the link c of world w.
ForUs(w, c, m) ==
  \/ /\ m.Command = "PING"
     /\ Len(m.Params) >= 1
     /\ m.Prefix \in {"", w.ServerObjs[w.LocalServers[c].Server].SID}
     /\ Len(m.Params) >= 2 => m.Params[2] = OurSID
  \/ /\ m.Command = "PONG"
     /\ Len(m.Params) >= 2
     /\ m.Params[2] = OurSID

\* A PING or PONG for us is recorded in the history of the link it came on.
Heard(w1, c, m) == IF ForUs(W, c, m) THEN Accept(w1, c, m) ELSE w1

\* The reader or the writer of a linked peer fails.
DeadServer ==
  \E c \in DOMAIN LocalServers :
    Install(LocalServer_quit(Begin(c, Msg("", "dead", << >>)), c, "I/O error"))


\* PING and PONG as a peer sends them: from itself or in the name of another
\* server, for us, for another server, or short of parameters.
PingInputs ==
  { Msg("", "PING", << "irc2" >>), Msg("", "PING", << "irc2", "003" >>),
    Msg("003", "PING", << "irc4", "001" >>), Msg("", "PING", << >>) }
PongInputs ==
  { Msg("", "PONG", << "irc2", "001" >>), Msg("003", "PONG", << "irc4", "001" >>),
    Msg("", "PONG", << "irc2", "003" >>), Msg("", "PONG", << "irc2" >>) }
\* SID: a server behind the peer is introduced.
SidInputs ==
  { Msg("", "SID", << "irc4", "2", "003", "desc" >>),
    Msg("003", "SID", << "irc5", "3", "001", "desc" >>) }

RecvPING ==
  \E c \in DOMAIN LocalServers, m \in PingInputs :
    Install(Heard(pingCommand(Begin(c, m), c, WithPrefix(W, c, m)), c, m))
RecvPONG ==
  \E c \in DOMAIN LocalServers, m \in PongInputs :
    Install(Heard(pongCommand(Begin(c, m), c, WithPrefix(W, c, m)), c, m))
RecvSID ==
  \E c \in DOMAIN LocalServers, m \in SidInputs :
    Install(sidCommand(Begin(c, m), c, WithPrefix(W, c, m)))
RecvServerERROR ==
  \E c \in DOMAIN LocalServers, m \in {Msg("", "ERROR", << "bye" >>)} :
    Install(LocalServer_errorCommand(Begin(c, m), c, WithPrefix(W, c, m)))

\* The end of the burst on a link while another connection goes through the
\* handshake, and two connections that go through the handshake together.
InitBurst == IsWorld(PeerLinked) \/ IsWorld(RacingPeers)

NextBurst ==
  \/ Accepted
  \/ RecvPASS
  \/ RecvCAPAB
  \/ RecvSERVER
  \/ RecvSVINFO
  \/ RecvPING
  \/ RecvPONG
  \/ RecvSID
  \/ RecvServerERROR
  \/ DeadServer

SpecBurst == InitBurst /\ [][NextBurst]_vars

-----------------------------------------------------------------------------
(* Users of the network: a peer introduces users, changes their nicks and
   takes them away while a local connection registers. *)

\* The world in which the peer is linked and a second connection sent NICK a.
PeerAndNick == After(newClient(PeerLinked), 2, Msg("", "NICK", << << "a" >> >>))

\* The UIDs the peer uses: two of its own, and one with our SID and the id
\* of the second connection.
uidP == "002AAAAAB"
uidQ == "002AAAAAC"
uidOurs == makeTS6UID(2)

\* A UID message of the peer.
UIDOf(nick, ts, umodes, user, host, uid) ==
  Msg("", "UID", << nick, "1", ts, umodes, user, host, "ip", uid, "real" >>)

\* UID introductions: a nick that is free or taken, older, newer or of the
\* same time as the local user's, from the same user and host or another.
UidInputs ==
  { UIDOf(<< "a" >>, "100", << "+", "i" >>, << "~", "u" >>, "host", uidP),
    UIDOf(<< "A" >>, "40", << "+", "i" >>, << "~", "u" >>, "host", uidQ),
    UIDOf(<< "a" >>, "101", << "+", "o" >>, << "~", "u" >>, "host", uidQ),
    UIDOf(<< "b" >>, "40", << "+", "i" >>, << "v" >>, "host", uidP),
    UIDOf(<< "b" >>, "100", << "+", "i" >>, << "v" >>, "host", uidOurs),
    UIDOf(<< "1" >>, "100", << "+", "i" >>, << "v" >>, "host", uidQ) }

\* NICK changes of remote users, and one of the local user.
ServerNickInputs ==
  { Msg(uidP, "NICK", << << "B" >>, "101" >>), Msg(uidQ, "NICK", << << "b" >>, "40" >>),
    Msg(uidP, "NICK", << << "a" >>, "40" >>), Msg(uidOurs, "NICK", << << "c" >>, "101" >>),
    Msg(uidQ, "NICK", << << "c" >> >>) }
QuitInputs == { Msg(u, "QUIT", << "bye" >>) : u \in {uidP, uidOurs} }
KillInputs ==
  { Msg("", "KILL", << u, "path (reason)" >>) : u \in {uidQ, uidOurs} }
  \cup { Msg("", "KILL", << uidP, "path" >>) }

RecvUID ==
  \E c \in DOMAIN LocalServers, m \in UidInputs :
    Install(uidCommand(Begin(c, m), c, WithPrefix(W, c, m)))
RecvServerNICK ==
  \E c \in DOMAIN LocalServers, m \in ServerNickInputs :
    Install(LocalServer_nickCommand(Begin(c, m), c, WithPrefix(W, c, m)))
RecvQUIT ==
  \E c \in DOMAIN LocalServers, m \in QuitInputs :
    Install(quitCommand(Begin(c, m), c, WithPrefix(W, c, m)))
RecvKILL ==
  \E c \in DOMAIN LocalServers, m \in KillInputs :
    Install(killCommand(Begin(c, m), c, WithPrefix(W, c, m)))

InitNick == IsWorld(PeerAndNick)

NextNick ==
  \/ RecvNICK
  \/ RecvUSER
  \/ RecvUID
  \/ RecvServerNICK
  \/ RecvQUIT
  \/ RecvKILL
  \/ RecvServerERROR
  \/ DeadServer

SpecNick == InitNick /\ [][NextNick]_vars

-----------------------------------------------------------------------------
(* Netsplits: the peer introduces servers behind it and users on them while
   a second connection, which gave the SID 003 in its PASS, goes through the
   handshake; links are lost by a dead connection, an ERROR or a SQUIT. *)

\* The world in which the peer is linked and a second connection sent PASS.
PeerAndPending ==
  After(newClient(PeerLinked), 2, Msg("", "PASS", << "pw3", "TS", "6", "003" >>))

\* Servers behind a peer: irc4 on the peer and irc5 on irc4, the latter with
\* the hop count of its place in the tree or with a hop count of 1.
SplitSidInputs ==
  { Msg("", "SID", << "irc4", "2", "003", "desc" >>),
    Msg("003", "SID", << "irc5", "3", "004", "desc" >>),
    Msg("003", "SID", << "irc5", "1", "004", "desc" >>) }

\* Users on the peer, an operator among them, and on the servers behind it.
SplitUidInputs ==
  { UIDOf(<< "b" >>, "100", << "+", "o" >>, << "v" >>, "host", uidP),
    Msg("003", "UID", << << "c" >>, "2", "100", << "+", "i" >>, << "v" >>, "host", "ip",
                         "003AAAAAB", "real" >>),
    Msg("004", "UID", << << "d" >>, "3", "100", << "+", "i" >>, << "v" >>, "host", "ip",
                         "004AAAAAB", "real" >>) }

\* SQUIT: of a server behind the peer, by a server; of a peer, by an operator.
SquitInputs ==
  { Msg("", "SQUIT", << "003", "gone" >>), Msg("", "SQUIT", << "004", "gone" >>),
    Msg(uidP, "SQUIT", << "002", "bye" >>), Msg(uidP, "SQUIT", << "003", "bye" >>),
    Msg("", "SQUIT", << "002" >>) }

RecvSplitSID ==
  \E c \in DOMAIN LocalServers, m \in SplitSidInputs :
    Install(sidCommand(Begin(c, m), c, WithPrefix(W, c, m)))
RecvSplitUID ==
  \E c \in DOMAIN LocalServers, m \in SplitUidInputs :
    Install(uidCommand(Begin(c, m), c, WithPrefix(W, c, m)))
RecvSQUIT ==
  \E c \in DOMAIN LocalServers, m \in SquitInputs :
    Install(squitCommand(Begin(c, m), c, WithPrefix(W, c, m)))

InitSplit == IsWorld(PeerAndPending)

NextSplit ==
  \/ RecvCAPAB
  \/ RecvSERVER
  \/ RecvSVINFO
  \/ RecvSplitSID
  \/ RecvSplitUID
  \/ RecvSQUIT
  \/ RecvServerERROR
  \/ DeadServer

SpecSplit == InitSplit /\ [][NextSplit]_vars

-----------------------------------------------------------------------------
(* Channels of the network: the peer introduces users and puts them in
   channels with SJOIN and JOIN, takes them out with PART and QUIT, while a
   local connection registers. *)

\* A UID the peer never introduces.
uidUnknown == "003AAAAAB"

\* The users the peer introduces: one of its own, one with our SID.
ChanUidInputs ==
  { UIDOf(<< "b" >>, "100", << "+", "i" >>, << "v" >>, "host", uidP),
    UIDOf(<< "d" >>, "100", << "+", "i" >>, << "v" >>, "host", uidOurs) }

\* One entry of the user list of an SJOIN: the UID, with the prefix @ or not.
Opped(uid) == [op |-> TRUE, uid |-> uid]
Plain(uid) == [op |-> FALSE, uid |-> uid]

\* SJOIN: a channel that is new or known, with a time stamp older, equal or
\* newer, modes n and s or none, users with and without ops, known or not.
SjoinInputs ==
  { Msg("", "SJOIN", << "100", "#a", {"n", "s"}, << Opped(uidP) >> >>),
    Msg("", "SJOIN", << "40", "#a", {"n"}, << Opped(uidOurs) >> >>),
    Msg("", "SJOIN", << "101", "#A", {"s"}, << Opped(uidOurs), Plain(uidP) >> >>),
    Msg("", "SJOIN", << "100", "#a", {}, << Plain(uidUnknown), Opped(uidP) >> >>),
    Msg("", "SJOIN", << "100", "#a", {"n"}, << Opped(uidOurs), Plain(uidUnknown) >> >>),
    Msg("", "SJOIN", << "100", "#a" >>) }

JoinInputs ==
  { Msg(uidP, "JOIN", << "100", "#a", "+" >>), Msg(uidOurs, "JOIN", << "40", "#a", "+" >>),
    Msg(uidP, "JOIN", << "0" >>) }

PartInputs ==
  { Msg(uidP, "PART", << << "#a" >> >>), Msg(uidOurs, "PART", << << "#a", "#b" >>, "bye" >>) }

RecvChanUID ==
  \E c \in DOMAIN LocalServers, m \in ChanUidInputs :
    Install(uidCommand(Begin(c, m), c, WithPrefix(W, c, m)))
RecvSJOIN ==
  \E c \in DOMAIN LocalServers, m \in SjoinInputs :
    Install(sjoinCommand(Begin(c, m), c, WithPrefix(W, c, m)))
RecvJOIN ==
  \E c \in DOMAIN LocalServers, m \in JoinInputs :
    Install(joinCommand(Begin(c, m), c, WithPrefix(W, c, m)))
RecvPART ==
  \E c \in DOMAIN LocalServers, m \in PartInputs :
    Install(partCommand(Begin(c, m), c, WithPrefix(W, c, m)))

InitChannel == IsWorld(PeerAndNick)

NextChannel ==
  \/ RecvUSER
  \/ RecvChanUID
  \/ RecvSJOIN
  \/ RecvJOIN
  \/ RecvPART
  \/ RecvQUIT
  \/ DeadServer

SpecChannel == InitChannel /\ [][NextChannel]_vars

-----------------------------------------------------------------------------
(* Channel operators: as the channels above, and the peer also changes the
   ops of a channel with TMODE and removes users with KILL. *)

\* TMODE: ops given and taken, by a user and by the peer, with a time stamp
\* equal, older or newer, one change or several, and a short message.
TmodeInputs ==
  { Msg(uidP, "TMODE", << "100", "#a", << "+", "o" >>, uidOurs >>),
    Msg("", "TMODE", << "100", "#a", << "-", "o" >>, uidP >>),
    Msg("", "TMODE", << "101", "#a", << "+", "o" >>, uidP >>),
    Msg("", "TMODE", << "40", "#A", << "+", "n", "o", "-", "o" >>, uidP, uidOurs >>),
    Msg("", "TMODE", << "100", "#a" >>) }

ChanKillInputs == { Msg("", "KILL", << uidP, "path (reason)" >>) }

RecvTMODE ==
  \E c \in DOMAIN LocalServers, m \in TmodeInputs :
    Install(tmodeCommand(Begin(c, m), c, WithPrefix(W, c, m)))
RecvChanKILL ==
  \E c \in DOMAIN LocalServers, m \in ChanKillInputs :
    Install(killCommand(Begin(c, m), c, WithPrefix(W, c, m)))

InitOps == IsWorld(PeerLinked)

NextOps ==
  \/ RecvChanUID
  \/ RecvSJOIN
  \/ RecvJOIN
  \/ RecvPART
  \/ RecvQUIT
  \/ RecvTMODE
  \/ RecvChanKILL
  \/ DeadServer

SpecOps == InitOps /\ [][NextOps]_vars

-----------------------------------------------------------------------------
(* Operators: the peer introduces users with and without the mode o, the
   users change their modes, quit and are killed, while a local connection
   registers. *)

\* Users the peer introduces as operators: one of its own, one with our SID.
OperUidInputs ==
  { UIDOf(<< "b" >>, "100", << "+", "o" >>, << "v" >>, "host", uidP),
    UIDOf(<< "d" >>, "100", << "+", "i", "o" >>, << "v" >>, "host", uidOurs) }

\* MODE of a user on itself, on another user and on a channel, and without
\* changes.
ModeInputs ==
  { Msg(uidP, "MODE", << uidP, << "+", "o" >> >>),
    Msg(uidP, "MODE", << uidP, << "-", "o", "i" >> >>),
    Msg(uidOurs, "MODE", << uidOurs, << "-", "o", "+", "C" >> >>),
    Msg(uidP, "MODE", << uidOurs, << "+", "o" >> >>),
    Msg(uidP, "MODE", << "#a", << "+", "n" >> >>),
    Msg(uidP, "MODE", << uidP >>) }

RecvOperUID ==
  \E c \in DOMAIN LocalServers, m \in OperUidInputs :
    Install(uidCommand(Begin(c, m), c, WithPrefix(W, c, m)))
RecvMODE ==
  \E c \in DOMAIN LocalServers, m \in ModeInputs :
    Install(modeCommand(Begin(c, m), c, WithPrefix(W, c, m)))

InitOper == IsWorld(PeerAndNick)

NextOper ==
  \/ RecvUSER
  \/ RecvOperUID
  \/ RecvMODE
  \/ RecvQUIT
  \/ RecvChanKILL
  \/ DeadServer

SpecOper == InitOper /\ [][NextOper]_vars

-----------------------------------------------------------------------------
(* Forwarding: two peers are linked, irc2 with the SID 002 and irc3 with the
   SID 003, and either of them sends the messages that change the state of
   the network. *)

\* The world in which the second connection completed its handshake too.
TwoPeers ==
  After(After(After(PeerAndPending,
                    2, Msg("", "CAPAB", << << "QS", "ENCAP", "TB" >> >>)),
              2, Msg("", "SERVER", << "irc3", "1", "desc" >>)),
        2, Msg("", "SVINFO", << "6", "6", "0", "100" >>))

\* One or two messages of every command that is forwarded; the SJOINs list a
\* known user alone, and a known user followed by an unknown one.
FwdUidInputs ==
  { UIDOf(<< "b" >>, "100", << "+", "i" >>, << "v" >>, "host", uidP) }
FwdSidInputs == { Msg("", "SID", << "irc4", "2", "004", "desc" >>) }
FwdSjoinInputs ==
  { Msg("", "SJOIN", << "100", "#a", {"n"}, << Opped(uidP) >> >>),
    Msg("", "SJOIN", << "100", "#a", {"n"}, << Plain(uidP), Plain(uidUnknown) >> >>) }
FwdJoinInputs == { Msg(uidP, "JOIN", << "100", "#a", "+" >>) }
FwdNickInputs == { Msg(uidP, "NICK", << << "B" >>, "101" >>) }
FwdPartInputs == { Msg(uidP, "PART", << << "#a" >> >>) }
FwdQuitInputs == { Msg(uidP, "QUIT", << "bye" >>) }
FwdModeInputs == { Msg(uidP, "MODE", << uidP, << "+", "o" >> >>) }
FwdTopicInputs == { Msg(uidP, "TOPIC", << "#a", << "t" >> >>) }
FwdTmodeInputs == { Msg("", "TMODE", << "100", "#a", << "+", "o" >>, uidP >>) }
FwdTbInputs == { Msg("", "TB", << "#a", "40", << "t" >> >>) }
FwdKillInputs == { Msg("", "KILL", << uidP, "path (reason)" >>) }
FwdEncapInputs ==
  { Msg("", "ENCAP", << "*", "UNKLINE", << "*" >>, << "h", "o", "s", "t" >> >>),
    Msg("", "ENCAP", << "*", "LOGIN", "x" >>) }
FwdAwayInputs == { Msg(uidP, "AWAY", << << "g" >> >>), Msg(uidP, "AWAY", << >>) }

\* The user of the first peer is introduced by the first peer, and the server
\* behind the second peer by the second peer; every other message arrives on
\* either link.
FwdUID ==
  \E c \in DOMAIN LocalServers \cap {1}, m \in FwdUidInputs :
    Install(uidCommand(Begin(c, m), c, WithPrefix(W, c, m)))
FwdSID ==
  \E c \in DOMAIN LocalServers \cap {2}, m \in FwdSidInputs :
    Install(sidCommand(Begin(c, m), c, WithPrefix(W, c, m)))
FwdSJOIN ==
  \E c \in DOMAIN LocalServers, m \in FwdSjoinInputs :
    Install(sjoinCommand(Begin(c, m), c, WithPrefix(W, c, m)))
FwdJOIN ==
  \E c \in DOMAIN LocalServers, m \in FwdJoinInputs :
    Install(joinCommand(Begin(c, m), c, WithPrefix(W, c, m)))
FwdNICK ==
  \E c \in DOMAIN LocalServers, m \in FwdNickInputs :
    Install(LocalServer_nickCommand(Begin(c, m), c, WithPrefix(W, c, m)))
FwdPART ==
  \E c \in DOMAIN LocalServers, m \in FwdPartInputs :
    Install(partCommand(Begin(c, m), c, WithPrefix(W, c, m)))
FwdQUIT ==
  \E c \in DOMAIN LocalServers, m \in FwdQuitInputs :
    Install(quitCommand(Begin(c, m), c, WithPrefix(W, c, m)))
FwdMODE ==
  \E c \in DOMAIN LocalServers, m \in FwdModeInputs :
    Install(modeCommand(Begin(c, m), c, WithPrefix(W, c, m)))
FwdTOPIC ==
  \E c \in DOMAIN LocalServers, m \in FwdTopicInputs, now \in Times :
    Install(topicCommand(Begin(c, m), c, WithPrefix(W, c, m), now))
FwdTMODE ==
  \E c \in DOMAIN LocalServers, m \in FwdTmodeInputs :
    Install(tmodeCommand(Begin(c, m), c, WithPrefix(W, c, m)))
FwdTB ==
  \E c \in DOMAIN LocalServers, m \in FwdTbInputs :
    Install(tbCommand(Begin(c, m), c, WithPrefix(W, c, m)))
FwdKILL ==
  \E c \in DOMAIN LocalServers, m \in FwdKillInputs :
    Install(killCommand(Begin(c, m), c, WithPrefix(W, c, m)))
FwdENCAP ==
  \E c \in DOMAIN LocalServers, m \in FwdEncapInputs :
    Install(encapCommand(Begin(c, m), c, WithPrefix(W, c, m)))
FwdAWAY ==
  \E c \in DOMAIN LocalServers, m \in FwdAwayInputs :
    Install(awayCommand(Begin(c, m), c, WithPrefix(W, c, m)))

InitForward == IsWorld(TwoPeers)

NextForward ==
  \/ FwdUID
  \/ FwdSID
  \/ FwdSJOIN
  \/ FwdJOIN
  \/ FwdNICK
  \/ FwdPART
  \/ FwdQUIT
  \/ FwdMODE
  \/ FwdTOPIC
  \/ FwdTMODE
  \/ FwdTB
  \/ FwdKILL
  \/ FwdENCAP
  \/ FwdAWAY

SpecForward == InitForward /\ [][NextForward]_vars

-----------------------------------------------------------------------------
(* The burst: the peer introduces users and channels, and then a second
   connection completes the handshake and is sent the burst.  The server at
   the other end runs the same handlers on what it is sent. *)

\* The world of a server that has just linked to us on its session 1 and
\* knows nothing else.  Its own SID and name are used in the messages it
\* sends only, and they are not looked at.
FreshPeer ==
  [World0 EXCEPT
     !.ServerObjs = 1 :> [ SID |-> OurSID, Name |-> OurName,
                           Description |-> "info", HopCount |-> 1,
                           Capabs |-> {"QS", "ENCAP", "TB"}, LocalServer |-> 1,
                           LinkedTo |-> 0, ClosestServer |-> 0 ],
     !.Servers = OurSID :> 1,
     !.LocalServers = 1 :> NewLocalServer(1),
     !.closed = 1 :> 0,
     !.accepted = 1 :> << >>,
     !.nextID = 2]

\* The peer handles one message of the burst; GCAP, AWAY and PING change
\* nothing of what is compared.
PeerHandles(w, m) ==
  IF ~Has(w.LocalServers, 1) THEN w
  ELSE IF m.Command = "SID" THEN sidCommand(w, 1, m)
  ELSE IF m.Command = "UID" THEN uidCommand(w, 1, m)
  ELSE IF m.Command = "SJOIN" THEN sjoinCommand(w, 1, m)
  ELSE w

\* The world of the peer after it handled the messages ms in order.
RECURSIVE PeerAfter(_, _)
PeerAfter(w, ms) ==
  IF ms = << >> THEN w ELSE PeerAfter(PeerHandles(w, Head(ms)), Tail(ms))

\* The messages queued for session c in the last step, in order.
QueuedFor(c) ==
  LET sel == SelectSeq(out, LAMBDA e : e.to = c)
  IN  [i \in DOMAIN sel |-> sel[i].msg]

InitSync == IsWorld(PeerAndPending)

NextSync ==
  \/ RecvCAPAB
  \/ RecvSERVER
  \/ RecvSVINFO
  \/ RecvChanUID
  \/ RecvSJOIN
  \/ RecvJOIN

SpecSync == InitSync /\ [][NextSync]_vars

-----------------------------------------------------------------------------
(* The send queue of a session.  The specifications above look at what a
   step queues; here the write channel of a session is a buffer with a
   capacity, filled by the dispatcher and emptied by the writer. *)

\* The capacity of a write channel (32768 in NewLocalClient).
WriteChanCap == 2

\* As LocalClient.maybeQueueMessage without its test of the flag.
maybeQueueUnlessFull(chan, exceeded, m) ==
  IF Len(chan) < WriteChanCap THEN [chan |-> Append(chan, m), exceeded |-> exceeded]
  ELSE [chan |-> chan, exceeded |-> TRUE]

\* LocalClient.maybeQueueMessage on the write channel and the flag of a
\* session: nothing when the flag is set; else the message is sent if the
\* channel has room, and the flag is set if it has none.
LocalClient_maybeQueueMessage(chan, exceeded, m) ==
  IF exceeded THEN [chan |-> chan, exceeded |-> exceeded]
  ELSE IF Len(chan) < WriteChanCap THEN [chan |-> Append(chan, m), exceeded |-> FALSE]
  ELSE [chan |-> chan, exceeded |-> TRUE]

QueueMessages ==
  { Msg(OurName, "NOTICE", << "hello" >>), Msg(OurName, "PING", << OurName >>) }

\* Two sessions were accepted; their write channels are empty.
InitQueue ==
  /\ LocalClients = newClient(newClient(World0)).LocalClients
  /\ closed = newClient(newClient(World0)).closed
  /\ accepted = newClient(newClient(World0)).accepted
  /\ nextID = newClient(newClient(World0)).nextID
  /\ LocalUsers = EmptyMap /\ LocalServers = EmptyMap /\ Servers = EmptyMap
  /\ ServerObjs = EmptyMap /\ Users = EmptyMap /\ Nicks = EmptyMap /\ Opers = {}
  /\ Channels = EmptyMap /\ ChanObjs = EmptyMap /\ KLines = << >> /\ out = << >>
  /\ last = [c |-> 0, m |-> Msg("", "", << >>)]
  /\ WriteChan = [c \in DOMAIN LocalClients |-> << >>]
  /\ SendQueueExceeded = [c \in DOMAIN LocalClients |-> FALSE]
  /\ remote = NoRemote
  /\ NoIO

\* The dispatcher queues message m for session c.
Enqueue(c, m) ==
  /\ WriteChan' = [WriteChan EXCEPT ![c] =
       LocalClient_maybeQueueMessage(WriteChan[c], SendQueueExceeded[c], m).chan]
  /\ SendQueueExceeded' = [SendQueueExceeded EXCEPT ![c] =
       LocalClient_maybeQueueMessage(WriteChan[c], SendQueueExceeded[c], m).exceeded]
  /\ last' = [c |-> c, m |-> m]
  /\ UNCHANGED << LocalClients, LocalUsers, LocalServers, Servers, ServerObjs, Users,
                  Nicks, Opers, Channels, ChanObjs, KLines, closed, nextID, out, accepted,
                  remote >>
  /\ UNCHANGED ioVars

QueueMessage == \E c \in DOMAIN WriteChan, m \in QueueMessages : Enqueue(c, m)

\* writeLoop receives the next message of the write channel of a session.
WriterReceives ==
  \E c \in DOMAIN WriteChan :
    /\ WriteChan[c] /= << >>
    /\ WriteChan' = [WriteChan EXCEPT ![c] = Tail(@)]
    /\ last' = [c |-> c, m |-> Msg("", "written", << >>)]
    /\ UNCHANGED << LocalClients, LocalUsers, LocalServers, Servers, ServerObjs, Users,
                    Nicks, Opers, Channels, ChanObjs, KLines, closed, nextID, out, accepted,
                    SendQueueExceeded, remote >>
    /\ UNCHANGED ioVars

NextQueue ==
  \/ QueueMessage
  \/ WriterReceives

SpecQueue == InitQueue /\ [][NextQueue]_vars

-----------------------------------------------------------------------------
(* Properties of the link handshake. *)

\* The handshake commands accepted from session c so far, in order.
AcceptedCommands(c) == [i \in DOMAIN accepted[c] |-> accepted[c][i].Command]
HandshakeOrder == << "PASS", "CAPAB", "SERVER", "SVINFO" >>

\* Message m on session c is out of the order of the handshake: a CAPAB with
\* no PASS accepted, a SERVER with no CAPAB accepted, an SVINFO with no SERVER
\* accepted, or a PASS, CAPAB or SERVER when one was accepted already.
OutOfOrder(c, m) ==
  \/ m.Command = "CAPAB" /\ "PASS" \notin SeqToSet(AcceptedCommands(c))
  \/ m.Command = "SERVER" /\ "CAPAB" \notin SeqToSet(AcceptedCommands(c))
  \/ m.Command = "SVINFO" /\ "SERVER" \notin SeqToSet(AcceptedCommands(c))
  \/ m.Command \in {"PASS", "CAPAB", "SERVER"}
       /\ m.Command \in SeqToSet(AcceptedCommands(c))

\* The message has the number of parameters its handler requires.
HasRequiredParams(m) ==
  CASE m.Command = "PASS" -> Len(m.Params) >= 4
    [] m.Command = "CAPAB" -> Len(m.Params) >= 1
    [] m.Command = "SERVER" -> Len(m.Params) = 3
    [] m.Command = "SVINFO" -> Len(m.Params) >= 4
    [] OTHER -> TRUE

\* The session of the last event was terminated by it and not promoted.
TerminatedUnpromoted ==
  /\ last'.c \notin DOMAIN LocalClients'
  /\ last'.c \notin DOMAIN LocalServers'
  /\ closed'[last'.c] = 1

PromotedInOrder ==
  \A c \in DOMAIN LocalServers : AcceptedCommands(c) = HandshakeOrder

AcceptedPASS(c) == SelectSeq(accepted[c], LAMBDA m : m.Command = "PASS")[1]
AcceptedSERVER(c) == SelectSeq(accepted[c], LAMBDA m : m.Command = "SERVER")[1]

\* The name under which the local server of session c is linked.
LinkedName(c) == ServerObjs[LocalServers[c].Server].Name

\* Every local server gave a configured name in its SERVER, the password
\* configured for that name in its PASS, and hop count 1.
PromotedAsConfigured ==
  \A c \in DOMAIN LocalServers :
    /\ Len(accepted[c]) >= 3
    /\ AcceptedSERVER(c).Command = "SERVER"
    /\ AcceptedPASS(c).Command = "PASS"
    /\ AcceptedSERVER(c).Params[1] \in DOMAIN ConfigServers
    /\ AcceptedPASS(c).Params[1] = ConfigServers[AcceptedSERVER(c).Params[1]]
    /\ AcceptedSERVER(c).Params[2] = "1"
    /\ LinkedName(c) = AcceptedSERVER(c).Params[1]

\* A session that was terminated is no local server and no server of the
\* Servers table is linked through it.
TerminatedNeverLinked ==
  \A c \in DOMAIN closed :
    closed[c] > 0 =>
      /\ c \notin DOMAIN LocalServers
      /\ \A sid \in DOMAIN Servers : ServerObjs[Servers[sid]].LocalServer /= c

\* No two local servers are linked under the same name.
OnePerName ==
  \A c1, c2 \in DOMAIN LocalServers : LinkedName(c1) = LinkedName(c2) => c1 = c2

\* The SERVER message m on session c fails a condition of promotion.
ServerRefused(c, m) ==
  \/ m.Params[1] \notin DOMAIN ConfigServers
  \/ ConfigServers[m.Params[1]] /= LocalClients[c].PreRegPass
  \/ m.Params[2] /= "1"
  \/ isLinkedToServer(W, m.Params[1])

-----------------------------------------------------------------------------
(* Properties of user registration. *)

\* The canonical nick of the local user on session c.
UserNick(c) == canonicalizeNick(Users[LocalUsers[c]].DisplayNick)

\* Every local user had a NICK and a USER accepted.
RegisteredAfterBoth ==
  \A c \in DOMAIN LocalUsers :
    {"NICK", "USER"} \subseteq SeqToSet(AcceptedCommands(c))

\* No two local users hold the same canonical nick, and each holds its own.
OneUserPerNick ==
  \A c1, c2 \in DOMAIN LocalUsers :
    /\ Has(Users, LocalUsers[c1])
    /\ Has(Nicks, UserNick(c1))
    /\ Nicks[UserNick(c1)] = LocalUsers[c1]
    /\ UserNick(c1) = UserNick(c2) => c1 = c2

\* Session c has recorded both a nick and a user name.
HasBoth(lc) == Len(lc.PreRegDisplayNick) > 0 /\ Len(lc.PreRegUser) > 0

\* C9: a session becomes a user only when both NICK and USER were accepted;
\* when the second of the two is accepted the canonical nick is looked up
\* again: if it is taken the session gets 433, nothing is inserted and the
\* session stays unregistered, otherwise it becomes the user holding the nick.
\* So no two users hold one canonical nick.
C9_RegisterRechecksNick ==
  [][ /\ RegisteredAfterBoth'
      /\ OneUserPerNick'
      /\ \A c \in DOMAIN LocalClients :
           /\ c \in DOMAIN LocalUsers'
              => ~Has(Nicks, UserNick(c)')
           /\ (/\ c = last'.c
               /\ Len(accepted'[c]) > Len(accepted[c]) \/ accepted'[c] /= accepted[c]
               /\ c \in DOMAIN LocalClients'
               /\ HasBoth(LocalClients'[c]))
              => /\ Has(Nicks, canonicalizeNick(LocalClients'[c].PreRegDisplayNick))
                 /\ "433" \in SeqToSet(OutCommands(W, c)')
                 /\ Users' = Users /\ Nicks' = Nicks /\ LocalUsers' = LocalUsers
    ]_vars

\* Two sessions recorded the same canonical nick in different spellings; one
\* became the user and the USER of the other got 433 and left it unregistered.
C9_Witness ==
  /\ last.m.Command = "USER"
  /\ last.c \in DOMAIN LocalClients
  /\ HasBoth(LocalClients[last.c])
  /\ OutCommands(W, last.c) = << "433" >>
  /\ \E c \in DOMAIN LocalUsers :
       /\ UserNick(c) = canonicalizeNick(LocalClients[last.c].PreRegDisplayNick)
       /\ Users[LocalUsers[c]].DisplayNick /= LocalClients[last.c].PreRegDisplayNick

-----------------------------------------------------------------------------
(* Properties of the end of the burst. *)

\* A PING of the peer for us was received on link c; a PONG for our SID was.
HeardPING(c) == \E i \in DOMAIN accepted[c] : accepted[c][i].Command = "PING"
HeardPONG(c) == \E i \in DOMAIN accepted[c] : accepted[c][i].Command = "PONG"

\* A connection that becomes a peer is bursting.
BurstingFromPromotion ==
  \A c \in DOMAIN LocalServers' \ DOMAIN LocalServers : LocalServers'[c].Bursting

\* The flag of a peer does not go from false to true.
BurstingNeverAgain ==
  \A c \in DOMAIN LocalServers \cap DOMAIN LocalServers' :
    ~LocalServers[c].Bursting => ~LocalServers'[c].Bursting

\* The flag of a peer is false exactly when both were received on its link.
BurstOverIffBoth ==
  \A c \in DOMAIN LocalServers :
    ~LocalServers[c].Bursting <=> (HeardPING(c) /\ HeardPONG(c))

\* C7: the Bursting flag of a peer is true from its promotion, is false
\* exactly in the states where both a PING of that peer for us and a PONG for
\* our SID were received on the link, in either order, and never goes back
\* from false to true.
C7_BurstingFlag ==
  /\ []BurstOverIffBoth
  /\ [][BurstingFromPromotion /\ BurstingNeverAgain]_vars

\* The burst of a peer is over: the PONG came after the PING.
C7_Witness ==
  /\ last.m.Command = "PONG"
  /\ last.c \in DOMAIN LocalServers
  /\ ~LocalServers[last.c].Bursting
  /\ HeardPING(last.c)

-----------------------------------------------------------------------------
(* Properties of the nick index. *)

\* I1: the nick index leads from the canonical nick of every user to its UID.
NickIndex ==
  \A uid \in DOMAIN Users :
    /\ Has(Nicks, canonicalizeNick(Users[uid].DisplayNick))
    /\ Nicks[canonicalizeNick(Users[uid].DisplayNick)] = uid

\* No two users share a canonical nick.
NoSharedNick ==
  \A u, v \in DOMAIN Users :
    canonicalizeNick(Users[u].DisplayNick) = canonicalizeNick(Users[v].DisplayNick)
      => u = v

\* C3: after any sequence of local registrations, UID introductions, remote
\* NICK changes, quits, kills and netsplits, the nick index maps the
\* canonical nick of every user of Users to the UID of that user, and no two
\* users share a canonical nick.
C3_NickIndex == NickIndex /\ NoSharedNick

\* A collision was settled for the incoming user: the local user that held
\* the nick is gone and the user of the UID message holds it.
C3_Witness ==
  /\ last.m.Command = "UID"
  /\ LocalUsers = EmptyMap
  /\ closed[2] = 1
  /\ Has(Users, last.m.Params[8])
  /\ Nicks[<< "a" >>] = last.m.Params[8]

-----------------------------------------------------------------------------
(* Properties of a netsplit. *)

\* The LinkedTo chain of server object o leads to the object target, or o is
\* the target.
RECURSIVE LeadsTo(_, _)
LeadsTo(o, target) ==
  /\ o /= 0
  /\ \/ o = target
     \/ Has(ServerObjs, o) /\ LeadsTo(ServerObjs[o].LinkedTo, target)

\* LocalServer.quit ran for the peer of session c in this step.
Delinked(c) == Has(LocalServers, c) /\ closed'[c] > closed[c]

\* The users the loss of the peer of session c loses: the remote users whose
\* home server is the peer or a server whose LinkedTo chain leads to it.
UsersBehind(c) ==
  {uid \in DOMAIN Users :
     /\ ~User_isLocal(Users[uid])
     /\ LeadsTo(Users[uid].Server, LocalServers[c].Server)}

SplitCleanUp ==
  \A c \in DOMAIN LocalServers :
    Delinked(c) =>
      /\ ~Has(LocalServers', c)
      /\ \A sid \in DOMAIN Servers' : ~LeadsTo(Servers'[sid], LocalServers[c].Server)
      /\ DOMAIN Users' \cap UsersBehind(c) = {}
      /\ {Nicks'[n] : n \in DOMAIN Nicks'} \cap UsersBehind(c) = {}
      /\ Opers' \cap UsersBehind(c) = {}

\* C4: after a local peer is delinked by LocalServer.quit (a dead connection,
\* an ERROR of the peer or a SQUIT of an operator), LocalServers has not the
\* peer, Servers has neither the peer nor a server whose LinkedTo chain leads
\* to it, and Users, Nicks and Opers have no user whose home server is lost.
C4_SplitCleanUp == [][SplitCleanUp]_vars

\* The first peer was lost with a server and a user behind it while a second
\* peer was linked: the second peer is told, and the tables keep only it.
C4_Witness ==
  /\ last.c = 1
  /\ last.m.Command \in {"dead", "ERROR"}
  /\ closed[1] = 1
  /\ DOMAIN LocalServers = {2}
  /\ \E i \in DOMAIN out : out[i].msg.Command = "SQUIT" /\ out[i].to = 2

-----------------------------------------------------------------------------
(* Properties of channels. *)

\* I2: every member of a channel of the table is a user of Users whose
\* Channels map holds the channel.
MembersAreUsers ==
  \A name \in DOMAIN Channels :
    \A uid \in ChanObjs[Channels[name]].Members :
      /\ Has(Users, uid)
      /\ Has(Users[uid].Channels, name)
      /\ Users[uid].Channels[name] = Channels[name]

\* C10: after any sequence of events, every member UID of every channel of
\* the Channels table is a user of the Users table whose Channels map holds
\* that channel.
C10_MembersAreUsers == MembersAreUsers

\* The peer put the local user in a channel: a member that is a local user.
C10_Witness ==
  /\ last.m.Command = "SJOIN"
  /\ \E name \in DOMAIN Channels :
       \E uid \in ChanObjs[Channels[name]].Members :
         Has(Users, uid) /\ User_isLocal(Users[uid]) /\ Has(Users[uid].Channels, name)

-----------------------------------------------------------------------------
(* Properties of SJOIN. *)

\* The UIDs an SJOIN lists, all of them and those with the prefix @.
Listed(m) == {m.Params[Len(m.Params)][i].uid : i \in DOMAIN m.Params[Len(m.Params)]}
ListedOps(m) ==
  {m.Params[Len(m.Params)][i].uid :
     i \in {j \in DOMAIN m.Params[Len(m.Params)] : m.Params[Len(m.Params)][j].op}}

\* The channel old became the channel new by the SJOIN m, of which the users
\* known are the listed users that Users holds.
Arbitrated(old, new, m, known) ==
  LET inTS == ParseInt(m.Params[1])
      inModes == m.Params[3] \cap {"n", "s"}
  IN  /\ new.Members = old.Members \cup (Listed(m) \cap known)
      /\ inTS > old.TS =>
           new.TS = old.TS /\ new.Modes = old.Modes /\ new.Ops = old.Ops
      /\ inTS < old.TS =>
           new.TS = inTS /\ new.Modes = inModes /\ new.Ops = ListedOps(m) \cap known
      /\ inTS = old.TS =>
           /\ new.TS = old.TS
           /\ new.Modes = old.Modes \cup inModes
           /\ new.Ops = old.Ops \cup (ListedOps(m) \cap known)

\* This step is the SJOIN of a peer, with its four parameters, for a channel
\* that is in the table.
SjoinForExisting ==
  /\ last'.m.Command = "SJOIN"
  /\ last' /= last
  /\ Has(LocalServers, last'.c)
  /\ Len(last'.m.Params) >= 4
  /\ Has(Channels, canonicalizeChannel(last'.m.Params[2]))

SjoinArbitration ==
  SjoinForExisting =>
    LET name == canonicalizeChannel(last'.m.Params[2]) IN
    /\ Has(Channels', name)
    /\ Arbitrated(ChanObjs[Channels[name]], ChanObjs'[Channels'[name]], last'.m,
                  DOMAIN Users)

\* C6: an SJOIN for an existing channel with a newer TS leaves the TS, modes
\* and ops of the channel and adds the listed users without ops; with an
\* older TS the channel takes the TS, and its modes and ops are those of the
\* message; with an equal TS the modes and ops of the message are added.
C6_SjoinArbitration == [][SjoinArbitration]_vars

\* An SJOIN with an older TS came for a channel that had a member: the
\* channel has the TS of the message and both users.
C6_Witness ==
  /\ last.m.Command = "SJOIN"
  /\ Has(Channels, "#a")
  /\ ChanObjs[Channels["#a"]].TS = 40
  /\ ChanObjs[Channels["#a"]].Members = {uidP, uidOurs}
  /\ ChanObjs[Channels["#a"]].Ops = {uidOurs}

-----------------------------------------------------------------------------
(* Properties of the burst. *)

\* The second connection was promoted in the last step: the messages queued
\* for it are SVINFO, the burst and the PING.
JustLinked ==
  /\ last.c = 2
  /\ last.m.Command = "SVINFO"
  /\ Has(LocalServers, 2)

\* The SID of the home server of a user, here and in the world w of a peer.
HomeSID(uid) ==
  IF User_isLocal(Users[uid]) THEN OurSID ELSE ServerObjs[Users[uid].Server].SID
PeerHomeSID(w, uid) == w.ServerObjs[w.Users[uid].Server].SID

\* The peer of world w knows the users we know, on the same servers.
AgreeOnUsers(w) ==
  /\ DOMAIN w.Users = DOMAIN Users
  /\ \A uid \in DOMAIN Users : PeerHomeSID(w, uid) = HomeSID(uid)

\* The peer of world w has the channels we have, with the same members and
\* ops.
AgreeOnMembers(w) ==
  /\ DOMAIN w.Channels = DOMAIN Channels
  /\ \A name \in DOMAIN Channels :
       /\ w.ChanObjs[w.Channels[name]].Members = ChanObjs[Channels[name]].Members
       /\ w.ChanObjs[w.Channels[name]].Ops = ChanObjs[Channels[name]].Ops

\* The channels of the peer have the TS and the modes ours have.
AgreeOnModes(w) ==
  \A name \in DOMAIN Channels \cap DOMAIN w.Channels :
    /\ w.ChanObjs[w.Channels[name]].TS = ChanObjs[Channels[name]].TS
    /\ w.ChanObjs[w.Channels[name]].Modes = ChanObjs[Channels[name]].Modes

BurstAgreement(w) == AgreeOnUsers(w) /\ AgreeOnMembers(w) /\ AgreeOnModes(w)

\* C5: when a peer that knew nothing has handled the burst we sent it and no
\* message is in flight, it agrees with us on the users, their home servers,
\* the members and ops of every channel, and the TS and modes of every channel.
C5_BurstAgreement == JustLinked => BurstAgreement(PeerAfter(FreshPeer, QueuedFor(2)))

\* A burst with a channel in it was sent.
C5_Witness ==
  /\ JustLinked
  /\ \E i \in DOMAIN out : out[i].to = 2 /\ out[i].msg.Command = "SJOIN"

-----------------------------------------------------------------------------
(* Properties of the send queue. *)

\* The dispatcher can always take the step of queueing a message.
NeverBlocks ==
  \A c \in DOMAIN WriteChan : \A m \in QueueMessages : ENABLED Enqueue(c, m)

\* This step queued a message for session c.
QueuedOn(c) == last'.c = c /\ last'.m \in QueueMessages

\* A message queued on a full channel is dropped and sets the flag.
DroppedWhenFull ==
  \A c \in DOMAIN WriteChan :
    QueuedOn(c) /\ Len(WriteChan[c]) = WriteChanCap =>
      WriteChan'[c] = WriteChan[c] /\ SendQueueExceeded'[c]

\* The flag stays, and with it set the channel only loses messages.
StickyFlag ==
  \A c \in DOMAIN WriteChan :
    SendQueueExceeded[c] =>
      /\ SendQueueExceeded'[c]
      /\ \/ WriteChan'[c] = WriteChan[c]
         \/ WriteChan[c] /= << >> /\ WriteChan'[c] = Tail(WriteChan[c])

\* C8: queueing a message never blocks the dispatcher; on a full queue the
\* message is dropped and SendQueueExceeded is set; once set the flag is never
\* cleared and no message is added to the queue, whatever the writer drains.
C8_SendQueue == []NeverBlocks /\ [][DroppedWhenFull /\ StickyFlag]_vars

\* A message came for a session whose flag was set and whose channel the
\* writer had emptied: the channel is still empty.
C8_Witness ==
  /\ last.m \in QueueMessages
  /\ SendQueueExceeded[last.c]
  /\ WriteChan[last.c] = << >>


-----------------------------------------------------------------------------
(* Channels are never empty. *)

\* Every channel of the table has a member.
NoEmptyChannel ==
  \A n \in DOMAIN Channels : ChanObjs[Channels[n]].Members /= {}

\* C11: after any sequence of SJOIN, JOIN, JOIN 0, PART, QUIT, KILL and
\* netsplit, no channel of the Channels table has an empty member set.
C11_NoEmptyChannel == NoEmptyChannel

\* The peer is still linked after the PART of its user from #a, so #a was in
\* the table and the PART was carried out, and the table has no #a any more.
C11_Witness ==
  /\ last.m.Command = "PART"
  /\ last.m.Prefix = uidP
  /\ LocalServers /= EmptyMap
  /\ Has(Users, uidP)
  /\ ~Has(Channels, "#a")


-----------------------------------------------------------------------------
(* The ops of a channel are members of it. *)

\* Every user with ops on a channel of the table is a member of it.
OpsAreMembers ==
  \A n \in DOMAIN Channels :
    ChanObjs[Channels[n]].Ops \subseteq ChanObjs[Channels[n]].Members

\* C14: after any sequence of SJOIN, JOIN, TMODE, PART, QUIT and netsplit
\* events the ops of every channel are a subset of its members.
C14_OpsAreMembers == OpsAreMembers

\* A TMODE gave ops on #a to a user.
C14_Witness ==
  /\ last.m.Command = "TMODE"
  /\ Has(Channels, "#a")
  /\ \E u \in ChanObjs[Channels["#a"]].Ops : u \in SeqToSet(last.m.Params)

-----------------------------------------------------------------------------
(* The servers of the table form a tree under this server. *)

\* Every server of the table is a local peer, or is linked to a server of
\* the table with a smaller hop count.
ServerTree ==
  \A sid \in DOMAIN Servers :
    LET server == ServerObjs[Servers[sid]] IN
      \/ Server_isLocal(server)
      \/ /\ \E other \in DOMAIN Servers : Servers[other] = server.LinkedTo
         /\ ServerObjs[server.LinkedTo].HopCount < server.HopCount

\* C12: after any sequence of handshakes, SID introductions and delinks,
\* every server of the Servers table is directly linked to this server or
\* its LinkedTo is another server of the table with a strictly smaller hop
\* count.
C12_ServerTree == ServerTree

\* A SID introduced a server behind a server that is behind the peer.
C12_Witness ==
  /\ last.m.Command = "SID"
  /\ Has(Servers, "004")
  /\ ~Server_isLocal(ServerObjs[ServerObjs[Servers["004"]].LinkedTo])

-----------------------------------------------------------------------------
(* The operators are the users with the mode o. *)

\* Every operator is a user, and a user has the mode o exactly when its UID
\* is in Opers.
OpersAreUsers ==
  /\ Opers \subseteq DOMAIN Users
  /\ \A uid \in DOMAIN Users : isOperator(Users[uid]) <=> uid \in Opers

\* C13: after any sequence of events Opers is a subset of Users, and a user
\* has the mode o if and only if its UID is in Opers.
C13_OpersAreUsers == OpersAreUsers

\* A MODE of a remote user on itself gave it, or took from it, the mode o.
C13_Witness ==
  /\ last.m.Command = "MODE"
  /\ Len(last.m.Params) = 2
  /\ last.m.Params[1] = last.m.Prefix
  /\ "o" \in SeqToSet(last.m.Params[2])
  /\ Has(Users, last.m.Prefix)
  /\ LocalServers /= EmptyMap
-----------------------------------------------------------------------------
(* Netsplit with two linked peers and a local user: the first peer has a
   user of its own and a server irc4 with a user behind it; the local user
   and the remote users meet on channels; a link is lost, or the peer tells
   that irc4 left. *)

\* The local user: a client on the third connection that sent NICK and USER.
uidLocal == makeTS6UID(3)
uidR == "004AAAAAB"
uidS == "004AAAAAC"
PeersAndUser ==
  After(After(newClient(TwoPeers), 3, Msg("", "NICK", << << "a" >> >>)),
        3, Msg("", "USER", << << "u" >>, "0", "*", "real" >>))

DelinkUidInputs ==
  { UIDOf(<< "b" >>, "100", << "+", "i" >>, << "v" >>, "host", uidP),
    Msg("004", "UID", << << "e" >>, "2", "100", << "+", "i" >>, << "v" >>, "host", "ip",
                         uidR, "real" >>),
    Msg("004", "UID", << << "f" >>, "2", "100", << "+", "i" >>, << "v" >>, "host", "ip",
                         uidS, "real" >>) }
DelinkSidInputs == { Msg("", "SID", << "irc4", "2", "004", "desc" >>) }
DelinkSjoinInputs ==
  { Msg("", "SJOIN", << "100", "#a", {"n"}, << Plain(uidLocal) >> >>),
    Msg("", "SJOIN", << "100", "#b", {"n"}, << Plain(uidLocal) >> >>) }
DelinkJoinInputs ==
  { Msg(uidP, "JOIN", << "100", "#a", "+" >>), Msg(uidR, "JOIN", << "100", "#a", "+" >>),
    Msg(uidR, "JOIN", << "100", "#b", "+" >>), Msg(uidS, "JOIN", << "100", "#b", "+" >>) }
DelinkSquitInputs == { Msg("", "SQUIT", << "004", "gone" >>) }

\* The first peer introduces its users and the server behind it, and tells
\* when that server left; the channel messages arrive on either link.
DelinkUID ==
  \E c \in DOMAIN LocalServers \cap {1}, m \in DelinkUidInputs :
    Install(uidCommand(Begin(c, m), c, WithPrefix(W, c, m)))
DelinkSID ==
  \E c \in DOMAIN LocalServers \cap {1}, m \in DelinkSidInputs :
    Install(sidCommand(Begin(c, m), c, WithPrefix(W, c, m)))
DelinkSJOIN ==
  \E c \in DOMAIN LocalServers, m \in DelinkSjoinInputs :
    Install(sjoinCommand(Begin(c, m), c, WithPrefix(W, c, m)))
DelinkJOIN ==
  \E c \in DOMAIN LocalServers, m \in DelinkJoinInputs :
    Install(joinCommand(Begin(c, m), c, WithPrefix(W, c, m)))
DelinkSQUIT ==
  \E c \in DOMAIN LocalServers \cap {1}, m \in DelinkSquitInputs :
    Install(squitCommand(Begin(c, m), c, WithPrefix(W, c, m)))

InitDelink == IsWorld(PeersAndUser)

NextDelink ==
  \/ DelinkUID
  \/ DelinkSID
  \/ DelinkSJOIN
  \/ DelinkJOIN
  \/ DelinkSQUIT
  \/ RecvServerERROR
  \/ DeadServer

SpecDelink == InitDelink /\ [][NextDelink]_vars

-----------------------------------------------------------------------------
(* Bans: a peer adds and removes K-lines while a client that sent its NICK
   sends USER with a user name that a user rule gives a spoof, or with one
   that gets none. *)

\* The bans are counted up to this number.
MaxKLines == 1

BanInputs ==
  { Msg("", "ENCAP", << "*", "KLINE", "0", << "*" >>, << "s", "p", "o", "o", "f" >>, "bye" >>),
    Msg("", "ENCAP", << "*", "KLINE", "0", << "~", "u" >>, << "*" >>, "out" >>),
    Msg("", "ENCAP", << "*", "UNKLINE", << "*" >>, << "s", "p", "o", "o", "f" >> >>) }
BanUserInputs ==
  { << << "u" >>, "0", "*", "real" >>, << << "w" >>, "0", "*", "real" >>,
    << << "v" >>, "0", "*", "real" >> }

BanENCAP ==
  \E c \in DOMAIN LocalServers, m \in BanInputs :
    /\ m.Params[2] = "KLINE" => Len(KLines) < MaxKLines
    /\ Install(encapCommand(Begin(c, m), c, WithPrefix(W, c, m)))
BanUSER ==
  \E c \in DOMAIN LocalClients, ps \in BanUserInputs : ClientMessage(c, Msg("", "USER", ps))

InitBan == IsWorld(PeerAndNick)

NextBan ==
  \/ BanENCAP
  \/ BanUSER
  \/ RecvIgnored
  \/ DeadServer

SpecBan == InitBan /\ [][NextBan]_vars

-----------------------------------------------------------------------------
(* Forwarding to the other peers. *)

ForwardedCommands ==
  { "UID", "SID", "SJOIN", "JOIN", "NICK", "PART", "QUIT", "MODE", "TOPIC",
    "TMODE", "TB", "KILL", "ENCAP", "AWAY" }

\* The tables of the network, before and after a step.
NetworkState ==
  << Servers, ServerObjs, Users, Nicks, Opers, Channels, ChanObjs, KLines >>

\* The form in which message m of link c is due to the other peers: with the
\* prefix of its source, and for UID and SID with the hop count raised by one.
ForwardedForm(c, m) ==
  IF m.Command \in {"UID", "SID"} THEN WithNextHop(WithPrefix(W, c, m))
  ELSE WithPrefix(W, c, m)

\* The messages of command cmd queued for session p in a world.
OutOfCommand(w, p, cmd) == SelectSeq(OutTo(w, p), LAMBDA e : e.msg.Command = cmd)

\* A step handled a message of a forwarded command on a link that stays, and
\* the message took effect: it changed the tables of the network or was sent
\* on to some peer.
ForwardedStep ==
  /\ last'.m.Command \in ForwardedCommands
  /\ last'.c \in DOMAIN LocalServers
  /\ last'.c \in DOMAIN LocalServers'
  /\ \/ NetworkState' # NetworkState
     \/ \E p \in DOMAIN LocalServers' :
          OutOfCommand(W', p, last'.m.Command) # << >>

\* C15: a message of a forwarded command that takes effect is queued exactly
\* once, in its forwarded form, for every local peer other than the one it
\* arrived from, and not at all for the peer it arrived from.
C15_Forwarding ==
  [][ ForwardedStep =>
        \A p \in DOMAIN LocalServers' :
          IF p = last'.c
          THEN OutOfCommand(W', p, last'.m.Command) = << >>
          ELSE /\ Len(OutOfCommand(W', p, last'.m.Command)) = 1
               /\ OutOfCommand(W', p, last'.m.Command)[1].msg
                    = ForwardedForm(last'.c, last'.m) ]_vars

\* A UID of the first peer was sent on to the second peer with its hop count
\* raised, and the user is in the table.
C15_Witness ==
  /\ last.m.Command = "UID"
  /\ last.c = 1
  /\ Has(Users, uidP)
  /\ 2 \in DOMAIN LocalServers
  /\ Len(OutOfCommand(W, 2, "UID")) = 1
  /\ OutOfCommand(W, 2, "UID")[1].msg.Params[2] = "2"
  /\ OutOfCommand(W, 1, "UID") = << >>

-----------------------------------------------------------------------------
(* The loss of a local peer. *)

\* The QUIT messages in the name of nick queued for session x in a world.
QuitsOf(w, x, nick) ==
  SelectSeq(OutTo(w, x), LAMBDA e : e.msg.Command = "QUIT" /\ e.msg.Prefix = nick)

\* The step in which the local peer of session c is lost tells every other
\* local peer once, in our name, with the SID of the lost peer and the reason
\* the lost peer is given in its ERROR; it tells the lost peer nothing; the
\* remote users of the servers of the lost subtree are forgotten, and each
\* local user that shared a channel with one of them is told once that it
\* quit, with our name and the name of the lost peer.
PeerLost(c) ==
  LET lost == LocalServers[c].Server
      gone == LostUsers(W, getLinkedServers(W, lost) \cup {lost})
      errors == OutOfCommand(W', c, "ERROR")
  IN  /\ OutOfCommand(W', c, "SQUIT") = << >>
      /\ Len(errors) = 1
      /\ \A p \in DOMAIN LocalServers' :
           /\ Len(OutOfCommand(W', p, "SQUIT")) = 1
           /\ OutOfCommand(W', p, "SQUIT")[1].msg
                = Msg(OurSID, "SQUIT", << ServerObjs[lost].SID,
                                          errors[1].msg.Params[Len(errors[1].msg.Params)] >>)
      /\ \A uid \in gone :
           /\ ~Has(Users', uid)
           /\ \A x \in LocalPeersOf(W, uid) :
                /\ Len(QuitsOf(W', x, Users[uid].DisplayNick)) = 1
                /\ QuitsOf(W', x, Users[uid].DisplayNick)[1].msg.Params
                     = << << OurName, ServerObjs[lost].Name >> >>

\* C16: when a local peer delinks, every other local peer is queued exactly
\* one SQUIT with our SID as prefix, the SID of the lost peer and the reason,
\* the lost peer is queued no SQUIT, and the remote users of the lost subtree
\* quit with the message made of our server name and the name of the lost peer.
C16_Delink ==
  [][ \A c \in DOMAIN LocalServers : c \notin DOMAIN LocalServers' => PeerLost(c) ]_vars

\* The first peer was lost with a user on the server behind it: the second
\* peer is told the SID 002, and the local user, which shared a channel with
\* that user, is told that it quit between us and irc2.
C16_Witness ==
  /\ last.c = 1
  /\ ~Has(LocalServers, 1)
  /\ Has(LocalServers, 2)
  /\ Len(OutOfCommand(W, 2, "SQUIT")) = 1
  /\ OutOfCommand(W, 2, "SQUIT")[1].msg.Params[1] = "002"
  /\ Len(QuitsOf(W, 3, << "e" >>)) = 1
  /\ QuitsOf(W, 3, << "e" >>)[1].msg.Params = << << OurName, "irc2" >> >>
  /\ ~Has(Users, uidR)

-----------------------------------------------------------------------------
(* The QUITs of a netsplit. *)

\* The servers a step loses, and the remote users on them.
ServersLost == {Servers[sid] : sid \in DOMAIN Servers \ DOMAIN Servers'}
UsersLost == LostUsers(W, ServersLost)

\* The sessions of the local users that shared a channel with a lost user.
SharedWithLost == UNION {LocalPeersOf(W, uid) : uid \in UsersLost}

\* The QUIT messages queued for session x in a world.
QuitsTo(w, x) == SelectSeq(OutTo(w, x), LAMBDA e : e.msg.Command = "QUIT")

\* The statement as it is worded: a step that loses servers queues exactly
\* one QUIT for each local user that shared a channel with any lost user.
C17_Original ==
  [][ ServersLost # {} =>
        \A x \in SharedWithLost : Len(QuitsTo(W', x)) = 1 ]_vars

\* C17: a step that loses the servers of a subtree queues, for every lost
\* user and every local user, exactly one QUIT in the name of the lost user
\* if the two shared a channel and none if they did not; a local user is
\* queued as many QUITs as there are lost users it shared a channel with.
C17_SplitQuits ==
  [][ ServersLost # {} =>
        \A x \in DOMAIN LocalUsers :
          /\ \A uid \in UsersLost :
               Len(QuitsOf(W', x, Users[uid].DisplayNick))
                 = IF x \in LocalPeersOf(W, uid) THEN 1 ELSE 0
          /\ Len(QuitsTo(W', x))
               = Cardinality({uid \in UsersLost : x \in LocalPeersOf(W, uid)}) ]_vars

\* The peer told that irc4 left while the local user shared the two channels
\* with one user of irc4 and one channel with the other: the local user is
\* queued one QUIT for each of the two.
C17_Witness ==
  /\ last.m.Command = "SQUIT"
  /\ Has(LocalServers, 1)
  /\ ~Has(Servers, "004")
  /\ Len(QuitsTo(W, 3)) = 2
  /\ Len(QuitsOf(W, 3, << "e" >>)) = 1
  /\ Len(QuitsOf(W, 3, << "f" >>)) = 1
  /\ Has(Users, uidLocal)
  /\ DOMAIN Users[uidLocal].Channels = {"#a", "#b"}

-----------------------------------------------------------------------------
(* The messages of a connection before it registers. *)

\* A step handles a message, with no prefix, of connection c that has not
\* registered.
PreRegisterMessage(c) ==
  /\ c \in DOMAIN LocalClients
  /\ last'.c = c
  /\ last'.m.Command \notin {"accept", "connect", "dead"}
  /\ last'.m.Prefix = ""

\* Session c is told, in a world, that it sent too many messages.
TooManyMessages(w, c) ==
  \E i \in DOMAIN OutTo(w, c) :
    /\ OutTo(w, c)[i].msg.Command = "ERROR"
    /\ OutTo(w, c)[i].msg.Params = << "Too many messages" >>

-----------------------------------------------------------------------------
(* The clock skew of a peer. *)

\* A step handles an SVINFO of connection c that is valid but for its time:
\* TS version 6, a SERVER received and ours sent, the name not linked, and the
\* count of messages below its maximum.
ValidSVINFO(c) ==
  /\ c \in DOMAIN LocalClients
  /\ last'.c = c
  /\ last'.m.Command = "SVINFO"
  /\ last'.m.Prefix = ""
  /\ Len(last'.m.Params) = 4
  /\ last'.m.Params[1] = "6" /\ last'.m.Params[2] = "6" /\ last'.m.Params[3] = "0"
  /\ ParsesAsInt(last'.m.Params[4])
  /\ LocalClients[c].GotSERVER /\ LocalClients[c].SentSERVER
  /\ ~isLinkedToServer(W, LocalClients[c].PreRegServerName)
  /\ LocalClients[c].PreRegisterMessageCount + 1 < MaxAllowedPreRegisterMessageCount

\* The seconds between the time of the SVINFO and one of our times.
SkewIs(n) == \E now \in Times : Abs(now - ParseInt(last'.m.Params[4])) = n

\* C19: an SVINFO that is valid but for its time makes the connection a
\* local server when its time is 60 seconds from ours, behind or ahead, and
\* ends the connection without making it a local server when it is 61 seconds
\* from ours.
C19_ClockSkew ==
  [][ \A c \in DOMAIN LocalClients :
        ValidSVINFO(c) =>
          /\ SkewIs(60) => /\ Has(LocalServers', c)
                           /\ closed'[c] = closed[c]
          /\ SkewIs(61) => /\ ~Has(LocalServers', c)
                           /\ ~Has(LocalClients', c)
                           /\ closed'[c] = closed[c] + 1 ]_vars

\* The connection was made a local server by an SVINFO whose time is 60
\* seconds ahead of ours.
C19_Witness ==
  /\ last.c = 1
  /\ last.m.Command = "SVINFO"
  /\ last.m.Params = << "6", "6", "0", "160" >>
  /\ Has(LocalServers, 1)
  /\ closed[1] = 0

-----------------------------------------------------------------------------
(* A ban at registration. *)

\* The user name connection c registers with when it sends the USER of the
\* step, and the host name the user has once the first matching user rule
\* gave its spoof.
UserNameOf(m) == Truncate(<< "~" >> \o m.Params[1], maxUsernameLength)
HostAfterSpoof(username) ==
  LET plain == [Username |-> username, Hostname |-> "host"]
      rules == SelectSeq(UserConfigs,
                 LAMBDA r : matchesMask(plain, r.UserMask, r.HostMask))
  IN  IF rules /= << >> /\ rules[1].Spoof /= "" THEN rules[1].Spoof ELSE "host"

\* The bans that match a user name on the host name it has after the spoof.
BansOf(username) ==
  SelectSeq(KLines,
    LAMBDA k : matchesMask([Username |-> username, Hostname |-> HostAfterSpoof(username)],
                           k.UserMask, k.HostMask))

\* A step handles the USER that completes the registration of connection c:
\* the message is well formed and not the tenth, the nick was given and is
\* free.
Registers(c) ==
  /\ c \in DOMAIN LocalClients
  /\ last'.c = c
  /\ last'.m.Command = "USER"
  /\ last'.m.Prefix = ""
  /\ Len(last'.m.Params) = 4
  /\ isValidUser(UserNameOf(last'.m))
  /\ LocalClients[c].PreRegisterMessageCount + 1 < MaxAllowedPreRegisterMessageCount
  /\ Len(LocalClients[c].PreRegDisplayNick) > 0
  /\ ~Has(Nicks, canonicalizeNick(LocalClients[c].PreRegDisplayNick))

\* Session c is queued a message of a command, in a world.
Told(w, c, command) ==
  \E i \in DOMAIN OutTo(w, c) : OutTo(w, c)[i].msg.Command = command

\* C20: a client that completes its registration while a K-line matches it,
\* on the host name it has after the spoof, is sent 465 and its connection
\* is ended with the reason of the K-line; it is not put in Users, Nicks or
\* LocalUsers, it leaves LocalClients, and no peer is sent a UID or a CLICONN.
C20_BannedAtRegistration ==
  [][ \A c \in DOMAIN LocalClients :
        (Registers(c) /\ BansOf(UserNameOf(last'.m)) # << >>) =>
          /\ Told(W', c, "465")
          /\ \E i \in DOMAIN OutTo(W', c) :
               /\ OutTo(W', c)[i].msg.Command = "ERROR"
               /\ OutTo(W', c)[i].msg.Params
                    = << << "Connection closed", BansOf(UserNameOf(last'.m))[1].Reason >> >>
          /\ closed'[c] = closed[c] + 1
          /\ ~Has(LocalClients', c)
          /\ ~Has(LocalUsers', c)
          /\ ~Has(Users', makeTS6UID(c))
          /\ ~Has(Nicks', canonicalizeNick(LocalClients[c].PreRegDisplayNick))
          /\ \A p \in DOMAIN LocalServers' :
               ~Told(W', p, "UID") /\ ~Told(W', p, "CLICONN") ]_vars

\* The client sent USER with a name that gets the spoof while the host name
\* of the spoof was banned: it was sent 465 and the reason of the ban, and the
\* peer, still linked, was sent nothing.
C20_Witness ==
  /\ last.c = 2
  /\ last.m.Command = "USER"
  /\ last.m.Params[1] = << "w" >>
  /\ Len(KLines) = 1
  /\ KLines[1].HostMask = << "s", "p", "o", "o", "f" >>
  /\ Told(W, 2, "465")
  /\ closed[2] = 1
  /\ ~Has(LocalClients, 2)
  /\ ~Has(Users, makeTS6UID(2))
  /\ Has(LocalServers, 1)
  /\ OutTo(W, 1) = << >>

-----------------------------------------------------------------------------
(* Protocol violations in the link handshake. *)

\* A handshake message with the parameters its handler requires whose
\* content breaks a rule of its step: the word TS, TS version 6, a SID that is
\* well formed, not ours and not in the table; the capabilities QS and ENCAP;
\* a configured name with its password, hop count 1 and no link of that name;
\* TS versions 6 and a clock within the maximum skew.
BadContent(c, m) ==
  /\ HasRequiredParams(m)
  /\ \/ /\ m.Command = "PASS"
        /\ \/ m.Params[2] /= "TS"
           \/ ~ParsesAsInt(m.Params[3])
           \/ ParsesAsInt(m.Params[3]) /\ ParseInt(m.Params[3]) /= 6
           \/ ~isValidSID(m.Params[4])
           \/ m.Params[4] = OurSID
           \/ Has(Servers, m.Params[4])
     \/ /\ m.Command = "CAPAB"
        /\ ~({"QS", "ENCAP"} \subseteq parseCapabsString(m.Params[1]))
     \/ /\ m.Command = "SERVER"
        /\ \/ ~Has(ConfigServers, m.Params[1])
           \/ Has(ConfigServers, m.Params[1])
                /\ ConfigServers[m.Params[1]] /= LocalClients[c].PreRegPass
           \/ m.Params[2] /= "1"
           \/ isLinkedToServer(W, m.Params[1])
     \/ /\ m.Command = "SVINFO"
        /\ \/ ~ParsesAsInt(m.Params[1]) \/ ~ParsesAsInt(m.Params[2])
           \/ ParsesAsInt(m.Params[1]) /\ ParseInt(m.Params[1]) /= 6
           \/ ParsesAsInt(m.Params[2]) /\ ParseInt(m.Params[2]) /= 6
           \/ ~ParsesAsInt(m.Params[4])
           \/ ParsesAsInt(m.Params[4])
                /\ \A now \in Times : Abs(now - ParseInt(m.Params[4])) > 60

\* A handshake message of connection c that violates the protocol: it has a
\* prefix, the wrong number of parameters, comes out of order, or its content
\* breaks a rule.
ProtocolViolation(c, m) ==
  /\ m.Command \in {"PASS", "CAPAB", "SERVER", "SVINFO"}
  /\ \/ m.Prefix /= ""
     \/ ~HasRequiredParams(m)
     \/ OutOfOrder(c, m)
     \/ BadContent(c, m)

\* The step ended session c with an ERROR that carries a reason.
EndedWithReason(c) ==
  /\ ~Has(LocalClients', c)
  /\ ~Has(LocalServers', c)
  /\ closed'[c] = closed[c] + 1
  /\ \E i \in DOMAIN OutTo(W', c) :
       /\ OutTo(W', c)[i].msg.Command = "ERROR"
       /\ Len(OutTo(W', c)[i].msg.Params) = 1
       /\ OutTo(W', c)[i].msg.Params[1] /= ""

AnsweredNeedMoreParams(c) ==
  /\ Has(LocalClients', c)
  /\ closed'[c] = closed[c]
  /\ OutCommands(W', c) = << "461" >>
  /\ LocalClients'[c]
       = [LocalClients[c] EXCEPT !.PreRegisterMessageCount = @ + 1]

-----------------------------------------------------------------------------
(* Topics: two peers are linked and a local user is registered.  The first
   peer introduces a user and puts the local user in a channel; the topic of
   the channel is set and cleared by TOPIC and bursted by TB with a time
   stamp before, at and after the time of TOPIC. *)

TopicUidInputs ==
  { UIDOf(<< "b" >>, "100", << "+", "i" >>, << "v" >>, "host", uidP) }
TopicSjoinInputs ==
  { Msg("", "SJOIN", << "100", "#a", {"n"}, << Plain(uidLocal) >> >>) }
TopicTopicInputs ==
  { Msg(uidP, "TOPIC", << "#a", << "t" >> >>), Msg(uidP, "TOPIC", << "#a" >>) }
TopicTbInputs ==
  { Msg("", "TB", << "#a", ts, topic >>) :
      ts \in {"40", "100", "160"}, topic \in {<< "t" >>, << "x" >>} }
  \cup { Msg("", "TB", << "#a", ts, << "b" >>, << "x" >> >>) : ts \in {"40", "100"} }
  \cup { Msg("", "TB", << "#a", "40" >>), Msg("", "TB", << "#a", "x", << "t" >> >>) }

TopicUID ==
  \E c \in DOMAIN LocalServers \cap {1}, m \in TopicUidInputs :
    Install(uidCommand(Begin(c, m), c, WithPrefix(W, c, m)))
TopicSJOIN ==
  \E c \in DOMAIN LocalServers \cap {1}, m \in TopicSjoinInputs :
    Install(sjoinCommand(Begin(c, m), c, WithPrefix(W, c, m)))
TopicTOPIC ==
  \E c \in DOMAIN LocalServers \cap {1}, m \in TopicTopicInputs, now \in Times :
    Install(topicCommand(Begin(c, m), c, WithPrefix(W, c, m), now))
TopicTB ==
  \E c \in DOMAIN LocalServers, m \in TopicTbInputs :
    Install(tbCommand(Begin(c, m), c, WithPrefix(W, c, m)))

InitTopic == IsWorld(PeersAndUser)

NextTopic ==
  \/ TopicUID
  \/ TopicSJOIN
  \/ TopicTOPIC
  \/ TopicTB
  \/ DeadServer

SpecTopic == InitTopic /\ [][NextTopic]_vars

\* The topic, its setter and its time of a channel object.
TopicOf(channel) == << channel.Topic, channel.TopicSetter, channel.TopicTS >>

\* The step handles a TB of a known server for a known channel with a time
\* stamp that parses.
HandlesTB ==
  /\ last'.m.Command = "TB"
  /\ last'.c \in DOMAIN LocalServers
  /\ Len(last'.m.Params) >= 3
  /\ Has(Servers, WithPrefix(W, last'.c, last'.m).Prefix)
  /\ Has(Channels, canonicalizeChannel(last'.m.Params[1]))
  /\ ParsesAsInt(last'.m.Params[2])

\* C22: a TB replaces the topic, the setter and the topic time of the channel
\* only when the channel has no topic or the time stamp of the TB is strictly
\* less than the topic time of the channel; in every other case the three
\* stay as they were and the step queues nothing, so no local member is sent
\* a TOPIC.
C22_TopicBurst ==
  [][HandlesTB =>
       LET m == WithPrefix(W, last'.c, last'.m)
           ch == Channels[canonicalizeChannel(m.Params[1])]
           old == ChanObjs[ch]
           ts == ParseInt(m.Params[2])
           setter == IF Len(m.Params) >= 4 THEN m.Params[3]
                     ELSE << ServerObjs[Servers[m.Prefix]].Name >>
           topic == m.Params[Len(m.Params)]
           mayAccept == old.Topic = << >> \/ ts < old.TopicTS
       IN  /\ Has(ChanObjs', ch)
           /\ TopicOf(ChanObjs'[ch]) /= TopicOf(old)
                => mayAccept /\ TopicOf(ChanObjs'[ch]) = << topic, setter, ts >>
           /\ ~mayAccept
                => /\ TopicOf(ChanObjs'[ch]) = TopicOf(old)
                   /\ out' = << >>
                   /\ last'.c \in DOMAIN LocalServers'
     ]_vars

\* A TB with the topic time of the channel and another topic was ignored: the
\* channel with the local member keeps the topic of time 100 and nothing is
\* queued.
C22_Witness ==
  /\ last.m = Msg("", "TB", << "#a", "100", << "x" >> >>)
  /\ Has(Channels, "#a")
  /\ uidLocal \in ChanObjs[Channels["#a"]].Members
  /\ TopicOf(ChanObjs[Channels["#a"]]) = << << "t" >>, << "b" >>, 100 >>
  /\ out = << >>

-----------------------------------------------------------------------------
(* Two servers: we and the server at the other end of link 1, each with one
   local user.  The other server runs the same handlers on its own world;
   the messages either side queues for the link are under way until the
   other side handles them, in order.  The users join two channels, at the
   time of their server, and ask for the modes of the channels. *)

\* The SID the other server gives itself.
RemoteSID == "002"

\* The times at which a JOIN may be handled.
TsTimes == {100, 101}

TsChannels == {"#a", "#b"}

\* LocalUser.joinCommand, for a channel the user is not on: a channel that
\* does not exist is made with the time of the join and the modes n and s,
\* and the user is its operator; the servers are sent an SJOIN for a channel
\* that was made and a JOIN with the time stamp of the channel otherwise.
LocalUser_joinCommand(w, c, m, now, sid) ==
  LET uid == w.LocalUsers[c]
      name == canonicalizeChannel(m.Params[1])
      nick == w.Users[uid].DisplayNick
  IN  IF ~Has(w.Channels, name)
      THEN LET found == findOrMakeChannel(w, name, now)
               w1 == [found.w EXCEPT !.ChanObjs[found.ch].Modes = {"n", "s"}]
               w2 == grantOps(addMember(w1, found.ch, uid), found.ch, uid)
               w3 == maybeQueueMessage(w2, c, Msg(nick, "JOIN", << name >>))
           IN  QueueAll(w3, IdSeq(DOMAIN w.LocalServers),
                 Msg(sid, "SJOIN", << FormatInt(now), name, {"n", "s"}, << Opped(uid) >> >>))
      ELSE LET ch == w.Channels[name]
               w1 == addMember(w, ch, uid)
               w2 == messageLocalUsersOnChannel(w1, ch, Msg(nick, "JOIN", << name >>))
           IN  QueueAll(w2, IdSeq(DOMAIN w.LocalServers),
                 Msg(uid, "JOIN", << FormatInt(w.ChanObjs[ch].TS), name, "+" >>))

\* LocalUser.modeCommand for a channel the user is on: the reply 329 with the
\* time stamp of the channel.
LocalUser_modeCommand(w, c, m) ==
  LET uid == w.LocalUsers[c]
      name == canonicalizeChannel(m.Params[1])
  IN  IF Has(w.Channels, name) /\ uid \in w.ChanObjs[w.Channels[name]].Members
      THEN maybeQueueMessage(w, c,
             Msg(OurName, "329", << w.Users[uid].DisplayNick, name,
                                    FormatInt(w.ChanObjs[w.Channels[name]].TS) >>))
      ELSE w

\* LocalServer.handleMessage for the messages of this section.
LinkHandles(w, s, m) ==
  IF m.Command = "UID" THEN uidCommand(w, s, m)
  ELSE IF m.Command = "SJOIN" THEN sjoinCommand(w, s, m)
  ELSE IF m.Command = "JOIN" THEN joinCommand(w, s, m)
  ELSE w

\* The messages world w queued for link 1 in its last step.
ToLink(w) == [i \in DOMAIN OutTo(w, 1) |-> OutTo(w, 1)[i].msg]

\* We: linked to irc2, with the local user a on connection 2.
UsWithUser ==
  After(After(newClient(PeerLinked), 2, Msg("", "NICK", << << "a" >> >>)),
        2, Msg("", "USER", << << "u" >>, "0", "*", "real" >>))

\* The local user of the other server, as its registerUser makes it.
RemoteUser ==
  [ DisplayNick |-> << "b" >>, HopCount |-> 0, NickTS |-> 100,
    Modes |-> {"i"}, Username |-> << "v" >>, Hostname |-> "host",
    Channels |-> EmptyMap, Local |-> 2, ClosestServer |-> 0, Server |-> 0,
    AwayMessage |-> << >> ]

\* The other server: linked to us on its connection 1, told of a by the UID
\* that the registration in world us queued for the link, and with the
\* local user b on its connection 2.
RemoteWithUser(us) ==
  LET w == uidCommand(FreshPeer, 1, OutTo(us, 1)[1].msg)
  IN  [w EXCEPT !.LocalUsers = Put(@, 2, uidP),
                !.Users = Put(@, uidP, RemoteUser),
                !.Nicks = Put(@, canonicalizeNick(<< "b" >>), uidP),
                !.closed = Put(@, 2, 0),
                !.accepted = Put(@, 2, << >>),
                !.nextID = 3,
                !.out = << >>]

\* World us after the UID by which the other server introduced b.
UsWithBoth(us) ==
  Collect([uidCommand([us EXCEPT !.out = << >>], 1,
                      UIDMessage(RemoteSID, uidP, RemoteUser)) EXCEPT !.out = << >>])

InitTS ==
  \E us \in {UsWithUser} : \E r \in {RemoteWithUser(us)} : \E w \in {UsWithBoth(us)} :
    /\ WriteChan = EmptyMap
    /\ SendQueueExceeded = EmptyMap
    /\ remote = [world |-> r, toRemote |-> << >>, toUs |-> << >>]
    /\ NoIO
    /\ LocalClients = w.LocalClients
    /\ LocalUsers = w.LocalUsers
    /\ LocalServers = w.LocalServers
    /\ Servers = w.Servers
    /\ ServerObjs = w.ServerObjs
    /\ Users = w.Users
    /\ Nicks = w.Nicks
    /\ Opers = w.Opers
    /\ Channels = w.Channels
    /\ ChanObjs = w.ChanObjs
    /\ KLines = w.KLines
    /\ closed = w.closed
    /\ nextID = w.nextID
    /\ out = w.out
    /\ last = w.last
    /\ accepted = w.accepted

\* The user of session c of world w is on the channel.
IsOn(w, c, name) ==
  Has(w.Channels, name) /\ w.LocalUsers[c] \in w.ChanObjs[w.Channels[name]].Members

\* A step of the other server: its world, and what it queued for the link.
RemoteStep(w1, rest) ==
  /\ \E w \in {w1} :
       remote' = [world |-> Collect(w), toRemote |-> rest,
                  toUs |-> remote.toUs \o ToLink(w)]
  /\ UNCHANGED << LocalClients, LocalUsers, LocalServers, Servers, ServerObjs, Users,
                  Nicks, Opers, Channels, ChanObjs, KLines, closed, nextID, out, last,
                  accepted, WriteChan, SendQueueExceeded >>
  /\ UNCHANGED ioVars

\* The world of the other server at the start of a step.
RemoteBegin(c, m) == [remote.world EXCEPT !.out = << >>, !.last = [c |-> c, m |-> m]]

TsLocalJOIN ==
  \E c \in DOMAIN LocalUsers, name \in TsChannels, now \in TsTimes :
    LET m == Msg("", "JOIN", << name >>)
    IN  /\ ~IsOn(W, c, name)
        /\ \E w1 \in {LocalUser_joinCommand(Begin(c, m), c, m, now, OurSID)} :
             InstallLinked(w1, [remote EXCEPT !.toRemote = @ \o ToLink(w1)])
TsLocalMODE ==
  \E c \in DOMAIN LocalUsers, name \in TsChannels :
    LET m == Msg("", "MODE", << name >>)
    IN  Install(LocalUser_modeCommand(Begin(c, m), c, m))
TsRecv ==
  /\ remote.toUs /= << >>
  /\ 1 \in DOMAIN LocalServers
  /\ \E m \in {Head(remote.toUs)} :
       \E w1 \in {LinkHandles(Begin(1, m), 1, m)} :
         InstallLinked(w1, [remote EXCEPT !.toUs = Tail(@),
                                          !.toRemote = @ \o ToLink(w1)])
TsRemoteJOIN ==
  \E c \in DOMAIN remote.world.LocalUsers, name \in TsChannels, now \in TsTimes :
    LET m == Msg("", "JOIN", << name >>)
    IN  /\ ~IsOn(remote.world, c, name)
        /\ RemoteStep(LocalUser_joinCommand(RemoteBegin(c, m), c, m, now, RemoteSID),
                      remote.toRemote)
TsRemoteMODE ==
  \E c \in DOMAIN remote.world.LocalUsers, name \in TsChannels :
    LET m == Msg("", "MODE", << name >>)
    IN  RemoteStep(LocalUser_modeCommand(RemoteBegin(c, m), c, m), remote.toRemote)
TsRemoteRecv ==
  /\ remote.toRemote /= << >>
  /\ 1 \in DOMAIN remote.world.LocalServers
  /\ \E m \in {Head(remote.toRemote)} :
       RemoteStep(LinkHandles(RemoteBegin(1, m), 1, m), Tail(remote.toRemote))

NextTS ==
  \/ TsLocalJOIN
  \/ TsLocalMODE
  \/ TsRecv
  \/ TsRemoteJOIN
  \/ TsRemoteMODE
  \/ TsRemoteRecv

SpecTS == InitTS /\ [][NextTS]_vars

\* No message is under way on the link.
Quiescent == remote.toRemote = << >> /\ remote.toUs = << >>

\* The time stamp the reply 329 carries for the user of session c of world w.
Reply329TS(w, c, name) ==
  LET replies == OutTo(LocalUser_modeCommand([w EXCEPT !.out = << >>], c,
                                             Msg("", "MODE", << name >>)), c)
  IN  replies[1].msg.Params[3]

\* C23: when no message is under way between the two servers, a channel that
\* has a local user of either server as a member has the same time stamp on
\* both servers, and a MODE query for the channel is answered on both with a
\* 329 that carries this time stamp.
C23_SameTS ==
  \A name \in TsChannels :
    Quiescent /\ IsOn(W, 2, name) /\ IsOn(remote.world, 2, name)
      => /\ ChanObjs[Channels[name]].TS
              = remote.world.ChanObjs[remote.world.Channels[name]].TS
         /\ Reply329TS(W, 2, name) = Reply329TS(remote.world, 2, name)
         /\ Reply329TS(W, 2, name) = FormatInt(ChanObjs[Channels[name]].TS)
         /\ 1 \in DOMAIN LocalServers
         /\ 1 \in DOMAIN remote.world.LocalServers

\* Our user made the channel at 101 and is its operator, the user of the
\* other server joined it, and each got the 329 with 101 for its MODE.
C23_Witness ==
  /\ Quiescent
  /\ IsOn(W, 2, "#a") /\ IsOn(remote.world, 2, "#a")
  /\ uidOurs \in ChanObjs[Channels["#a"]].Ops
  /\ uidP \notin remote.world.ChanObjs[remote.world.Channels["#a"]].Ops
  /\ out = << [to |-> 2, msg |-> Msg(OurName, "329", << << "a" >>, "#a", "101" >>)] >>
  /\ remote.world.out
       = << [to |-> 2, msg |-> Msg(OurName, "329", << << "b" >>, "#a", "101" >>)] >>

-----------------------------------------------------------------------------
(* Properties of what we send during the handshake. *)

\* How many of the messages queued on session c in the step to world w are
\* of the command.
CountOf(w, c, command) ==
  Cardinality({i \in DOMAIN OutTo(w, c) : OutTo(w, c)[i].msg.Command = command})

\* C24: SVINFO is sent exactly once per successful link.  A connection is
\* queued an SVINFO only while its flag SentSVINFO is not set, at most one
\* in a step, and the flag is set by nothing else.  When the SERVER of the
\* peer is accepted, a peer that initiated is queued PASS, CAPAB and SERVER and
\* no SVINFO, and a peer we connected to is queued the SVINFO.  The step that
\* promotes the connection queues the SVINFO first if none was sent and none
\* otherwise; then comes the burst and last a single PING with our SID.  No
\* other step queues an SVINFO for any session.
C24_SvinfoOnce ==
  [][LET c == last'.c
         cmds == OutCommands(W', c)
         n == CountOf(W', c, "SVINFO")
     IN  /\ \A x \in DOMAIN closed' : x /= c => CountOf(W', x, "SVINFO") = 0
         /\ c \notin DOMAIN LocalClients => n = 0
         /\ c \in DOMAIN LocalClients =>
              /\ n <= 1
              /\ n = 1 => ~LocalClients[c].SentSVINFO
              /\ c \in DOMAIN LocalClients' =>
                   /\ LocalClients'[c].SentSVINFO <=> (LocalClients[c].SentSVINFO \/ n = 1)
                   /\ ~LocalClients[c].GotSERVER /\ LocalClients'[c].GotSERVER =>
                        IF LocalClients[c].SentSERVER
                        THEN cmds = << "SVINFO" >>
                        ELSE cmds = << "PASS", "CAPAB", "SERVER" >>
                   /\ n = 1 => ~LocalClients[c].GotSERVER /\ LocalClients'[c].GotSERVER
              /\ c \in DOMAIN LocalServers' =>
                   /\ LocalClients[c].SentSVINFO <=> n = 0
                   /\ n = 1 => cmds[1] = "SVINFO"
                   /\ CountOf(W', c, "PING") = 1
                   /\ OutTo(W', c)[Len(cmds)].msg = Msg("", "PING", << OurSID >>)
                   /\ \A i \in (n + 1)..(Len(cmds) - 1) :
                        cmds[i] \in {"SID", "UID", "SJOIN", "TB", "ENCAP", "AWAY"}
    ]_vars

\* A link we made is promoted by the SVINFO of the peer while another server
\* is linked: the session is queued the burst and the PING, and no SVINFO.
C24_Witness ==
  /\ last.m.Command = "SVINFO"
  /\ last.c \in DOMAIN LocalServers
  /\ Cardinality(DOMAIN LocalServers) = 2
  /\ CountOf(W, last.c, "SVINFO") = 0
  /\ Len(OutTo(W, last.c)) >= 2
  /\ OutCommands(W, last.c)[1] = "SID"
  /\ OutTo(W, last.c)[Len(OutTo(W, last.c))].msg = Msg("", "PING", << OurSID >>)

-----------------------------------------------------------------------------
(* User modes: the peer introduces an operator and a plain user, and the
   users change their modes i, o and C by MODE. *)

UmodeUidInputs ==
  { UIDOf(<< "b" >>, "100", << "+", "o" >>, << "v" >>, "host", uidP),
    UIDOf(<< "c" >>, "100", << "+", "i" >>, << "v" >>, "host", uidQ) }

\* The mode changes of the MODE messages.
UmodeStrings ==
  { << "+", "C" >>, << "-", "C" >>, << "+", "o" >>, << "-", "o" >>,
    << "-", "o", "+", "C" >>, << "-", "i" >>, << "i" >>, << "+", "x" >> }

UmodeInputs == { Msg(uid, "MODE", << uid, s >>) : uid \in {uidP, uidQ}, s \in UmodeStrings }

UmodeUID ==
  \E c \in DOMAIN LocalServers, m \in UmodeUidInputs :
    Install(uidCommand(Begin(c, m), c, WithPrefix(W, c, m)))
UmodeMODE ==
  \E c \in DOMAIN LocalServers, m \in UmodeInputs :
    Install(modeCommand(Begin(c, m), c, WithPrefix(W, c, m)))

InitUmode == IsWorld(PeerLinked)

NextUmode ==
  \/ UmodeUID
  \/ UmodeMODE
  \/ DeadServer

SpecUmode == InitUmode /\ [][NextUmode]_vars

\* parseAndResolveUmodeChanges: the modes set, unset and unknown, and the
\* modes the user has afterwards (the function changes the map it is given).
parseAndResolveUmodeChanges(modes, currentModes) ==
  LET RECURSIVE parse(_, _, _, _)
      parse(chars, action, set, unset) ==
        IF chars = << >> THEN [set |-> set, unset |-> unset]
        ELSE IF Head(chars) \in {"+", "-"} THEN parse(Tail(chars), Head(chars), set, unset)
        ELSE IF action = "+" THEN parse(Tail(chars), action, set \cup {Head(chars)}, unset)
        ELSE parse(Tail(chars), action, set, unset \cup {Head(chars)})
      requested == parse(modes, "+", {}, {})
      known == {"i", "o", "C"}
      unknownModes == (requested.set \cup requested.unset) \ known
      set1 == requested.set \cap known
      unset1 == requested.unset \cap known
      \* Without o there is no C.
      unset2 == IF "o" \in unset1 THEN unset1 \cup {"C"} ELSE unset1
      set2 == IF "o" \in unset1 THEN set1 \ {"C"} ELSE set1
      \* What is asked both ways is forgotten.
      set3 == set2 \ unset2
      unset3 == unset2 \ set2
      unsetModes == unset3 \cap currentModes
      current1 == currentModes \ unset3
      setModes == {mode \in set3 \ current1 :
                     \/ mode = "i"
                     \/ mode = "C" /\ "o" \in current1}
  IN  [ set |-> setModes, unset |-> unsetModes, unknown |-> unknownModes,
        current |-> current1 \cup setModes ]

\* The modes of a user are those of an operator, or without C.
WatcherIsOper(modes) == "C" \in modes => "o" \in modes

\* For a local user the changes are resolved so that a user without o is
\* left without C, whatever is asked.
ResolvedKeepsWatchersOpers ==
  \A s \in UmodeStrings \cup {<< "-", "o", "+", "o" >>, << "+", "C", "-", "o" >>} :
    \A cur \in SUBSET {"i", "o", "C"} :
      LET r == parseAndResolveUmodeChanges(s, cur) IN
      /\ WatcherIsOper(cur) => WatcherIsOper(r.current)
      /\ "o" \in r.unset => "C" \notin r.current
      /\ "o" \notin r.set

\* C25: in a step that handles a MODE of a user on itself, a user that loses
\* the mode o leaves Opers and loses the mode C, and after the step the user
\* does not have C without o.
C25_WatchersAreOpers ==
  [][last'.m.Command = "MODE" =>
       \A uid \in DOMAIN Users \cap DOMAIN Users' :
         /\ "o" \in Users[uid].Modes /\ "o" \notin Users'[uid].Modes
              => uid \notin Opers' /\ "C" \notin Users'[uid].Modes
         /\ uid = last'.m.Prefix => WatcherIsOper(Users'[uid].Modes)
    ]_vars

\* The operator b, who had set C, sent MODE -o: b is not in Opers and has
\* kept the mode C.
C25_Witness ==
  /\ last.m = Msg(uidP, "MODE", << uidP, << "-", "o" >> >>)
  /\ Has(Users, uidP)
  /\ uidP \notin Opers
  /\ "o" \notin Users[uidP].Modes
  /\ "C" \in Users[uidP].Modes

-----------------------------------------------------------------------------
(* Connection ids: the server has accepted connections before, so that the
   next connection id is small, at a power of 36, or at the end of the range
   of makeTS6ID; up to IdConns connections are accepted and register as
   users. *)

\* Connections accepted in one run of this specification.
IdConns == 2

\* The connection ids the runs start at.
StartIds ==
  { 1, 25, 26, 35, 36, 1295, 1296, 46655, 46656, 1679615, 1679616,
    60466175, 60466176, TS6IDLimit - 2, TS6IDLimit - 1, TS6IDLimit }

\* The ids makeTS6ID is looked at for: those of the runs, the id 0 and ids
\* beyond the range.
SampleIds ==
  {0} \cup {n + k : n \in StartIds, k \in 0..IdConns} \cup {TS6IDLimit + 36}

IdNickInputs == { << "a" >>, << "b" >> }

IdAccepted ==
  /\ Cardinality(DOMAIN closed) < IdConns
  /\ last.m.Command /= "exit"
  /\ Install(newClient(Begin(nextID, Msg("", "accept", << >>))))
\* A connection sends NICK once, with a nick no user has, and USER once.
IdNICK ==
  \E c \in DOMAIN LocalClients, n \in IdNickInputs :
    /\ LocalClients[c].PreRegDisplayNick = << >>
    /\ ~Has(Nicks, canonicalizeNick(n))
    /\ ClientMessage(c, Msg("", "NICK", << n >>))
IdUSER ==
  \E c \in DOMAIN LocalClients :
    /\ LocalClients[c].PreRegUser = << >>
    /\ ClientMessage(c, Msg("", "USER", << << "u" >>, "0", "*", "real" >>))

InitIds == \E n \in StartIds : IsWorld([World0 EXCEPT !.nextID = n])

NextIds ==
  \/ IdAccepted
  \/ IdNICK
  \/ IdUSER

SpecIds == InitIds /\ [][NextIds]_vars

\* The digit a character of a TS6 ID stands for.
TS6DigitOf(ch) ==
  CHOOSE d \in 0..35 : ch = (IF d >= 26 THEN TS6Digits[d - 26 + 1] ELSE TS6Letters[d + 1])

\* The number a sequence of characters is in base 36, the first character
\* being the most significant digit.
RECURSIVE TS6Value(_)
TS6Value(chars) ==
  IF chars = << >> THEN 0
  ELSE TS6Value(SubSeq(chars, 1, Len(chars) - 1)) * 36 + TS6DigitOf(chars[Len(chars)])

\* C26: makeTS6ID gives every id below 26*36^5 an ID of six characters, the
\* first a letter and the others letters or digits, that is the id in base
\* 36 with the most significant digit first, A to Z for 0 to 25 and 0 to 9
\* for 26 to 35, so that different ids get different IDs (the id is read
\* back from the ID); an id of 26*36^5 or more gives the error.  A
\* connection registers with our SID and the ID of its connection id as its
\* UID, and at an id out of range the process ends without a user.
C26_TS6ID ==
  /\ \A i \in SampleIds :
       IF i >= TS6IDLimit THEN makeTS6ID(i).err
       ELSE /\ ~makeTS6ID(i).err
            /\ Len(makeTS6ID(i).id) = 6
            /\ makeTS6ID(i).id[1] \in Upper
            /\ \A k \in 2..6 : makeTS6ID(i).id[k] \in Upper \cup Digits
            /\ TS6Value(makeTS6ID(i).id) = i
  /\ \A c \in DOMAIN LocalUsers :
       /\ c < TS6IDLimit
       /\ ~makeTS6ID(c).err
       /\ LocalUsers[c] = OurSID \o StringOf(makeTS6ID(c).id)
       /\ Has(Users, LocalUsers[c])
  /\ \A c, d \in DOMAIN LocalUsers : c /= d => LocalUsers[c] /= LocalUsers[d]
  /\ last.m.Command = "exit" => last.c >= TS6IDLimit /\ Users = EmptyMap

\* The last two ids of the range are registered users, with the IDs Z99998
\* and Z99999.
C26_Witness ==
  /\ DOMAIN LocalUsers = {TS6IDLimit - 2, TS6IDLimit - 1}
  /\ LocalUsers[TS6IDLimit - 2] = "001Z99998"
  /\ LocalUsers[TS6IDLimit - 1] = "001Z99999"
  /\ makeTS6ID(TS6IDLimit - 1).id = << "Z", "9", "9", "9", "9", "9" >>
  /\ makeTS6ID(TS6IDLimit).err

\* The connection with the id 26*36^5 sent NICK and USER: the process ended.
ExitedAtLimit == last = [c |-> TS6IDLimit, m |-> Msg("", "exit", << >>)]

-----------------------------------------------------------------------------
(* Shutdown.  Each session has a reader and a writer beside the dispatcher.
   The reader sends what it reads to the dispatcher as events, the writer
   receives from the write channel of the session and writes to the socket;
   the close of ShutdownChan is the broadcast that ends them. *)

\* The capacity of the channel of events.
ToServerChanCap == 1

\* The sessions whose reader and writer are followed.
ShutdownSessions == {1, 2}

\* Catbox.newEvent on the channel of events: the channels it can leave
\* behind.  The event is sent when the channel has room; a sender is let go
\* without sending once ShutdownChan is closed; else it blocks (no outcome).
newEvent(chan, shutdown, evt) ==
  (IF Len(chan) < ToServerChanCap THEN {Append(chan, evt)} ELSE {})
    \cup (IF shutdown = "closed" THEN {chan} ELSE {})

\* The loop of a writer as 'for message := range c.WriteChan': no case for
\* the shutdown.
writeLoopRange(chan, chanClosed, shutdown) ==
  (IF chan /= << >> THEN {"message"} ELSE {})
    \cup (IF chan = << >> /\ chanClosed THEN {"closed"} ELSE {})

\* The select of writeLoop: the cases that can proceed, of which Go takes
\* one at random.  A receive from the write channel gives a buffered
\* message, or not ok when the channel is closed and empty; a receive from
\* ShutdownChan proceeds once it is closed.
writeLoopSelect(chan, chanClosed, shutdown) ==
  (IF chan /= << >> THEN {"message"} ELSE {})
    \cup (IF chan = << >> /\ chanClosed THEN {"closed"} ELSE {})
    \cup (IF shutdown = "closed" THEN {"shutdown"} ELSE {})

\* One turn of readLoop from its top for a reader of a socket: where the
\* reader can be next.  It ends when we shut down; else it reads until a
\* line or the deadline or an error comes: a line that parses is sent as an
\* event, one that does not is skipped, a read error (the only outcome on a
\* closed socket) is sent as the event of a dead client.
readLoopTurn(shutdown, conn) ==
  IF shutdown = "closed" THEN {"done"}
  ELSE IF conn = "closed" THEN {"DeadClient"}
  ELSE {"MessageFromClient", "top", "DeadClient"}

ShutdownMessage == Msg(OurName, "PING", << OurName >>)

\* Two sessions were accepted; their readers and writers start.
InitShutdown ==
  /\ LocalClients = newClient(newClient(World0)).LocalClients
  /\ closed = newClient(newClient(World0)).closed
  /\ accepted = newClient(newClient(World0)).accepted
  /\ nextID = newClient(newClient(World0)).nextID
  /\ LocalUsers = EmptyMap /\ LocalServers = EmptyMap /\ Servers = EmptyMap
  /\ ServerObjs = EmptyMap /\ Users = EmptyMap /\ Nicks = EmptyMap /\ Opers = {}
  /\ Channels = EmptyMap /\ ChanObjs = EmptyMap /\ KLines = << >> /\ out = << >>
  /\ last = [c |-> 0, m |-> Msg("", "", << >>)]
  /\ WriteChan = [c \in ShutdownSessions |-> << >>]
  /\ SendQueueExceeded = [c \in ShutdownSessions |-> FALSE]
  /\ remote = NoRemote
  /\ ShutdownChan = "open"
  /\ ToServerChan = << >>
  /\ Conn = [c \in ShutdownSessions |-> "open"]
  /\ readLoop = [c \in ShutdownSessions |-> "top"]
  /\ writeLoop = [c \in ShutdownSessions |-> "select"]
  /\ packing = NoPacking

WorldUnchanged ==
  UNCHANGED << LocalClients, LocalUsers, LocalServers, Servers, ServerObjs, Users,
               Nicks, Opers, Channels, ChanObjs, KLines, nextID, out, last, accepted,
               remote, packing >>

\* What is left of writeLoop after its loop: the socket is closed and the
\* writer ends.
WriteLoopEnds(c) ==
  /\ Conn' = [Conn EXCEPT ![c] = "closed"]
  /\ writeLoop' = [writeLoop EXCEPT ![c] = "done"]

\* The writer of session c receives a message.  One that does not encode is
\* skipped; else Conn.Write returns, at the latest at its deadline, and the
\* writer is back at the select or, after an error and a sleep, about to send
\* the event of a dead client.
WriteLoopMessage(c) ==
  /\ writeLoop[c] = "select"
  /\ "message" \in writeLoopSelect(WriteChan[c], closed[c] > 0, ShutdownChan)
  /\ WriteChan' = [WriteChan EXCEPT ![c] = Tail(@)]
  /\ \E written \in BOOLEAN :
       writeLoop' = [writeLoop EXCEPT ![c] = IF written THEN "select" ELSE "newEvent"]
  /\ WorldUnchanged
  /\ UNCHANGED << SendQueueExceeded, closed, ShutdownChan, ToServerChan, Conn, readLoop >>

\* The writer finds the write channel closed and empty and leaves the loop.
WriteLoopClosed(c) ==
  /\ writeLoop[c] = "select"
  /\ "closed" \in writeLoopSelect(WriteChan[c], closed[c] > 0, ShutdownChan)
  /\ WriteLoopEnds(c)
  /\ WorldUnchanged
  /\ UNCHANGED << SendQueueExceeded, closed, WriteChan, ShutdownChan, ToServerChan, readLoop >>

\* The writer takes the case of the shutdown and leaves the loop.
WriteLoopShutdown(c) ==
  /\ writeLoop[c] = "select"
  /\ "shutdown" \in writeLoopSelect(WriteChan[c], closed[c] > 0, ShutdownChan)
  /\ WriteLoopEnds(c)
  /\ WorldUnchanged
  /\ UNCHANGED << SendQueueExceeded, closed, WriteChan, ShutdownChan, ToServerChan, readLoop >>

\* The writer sent the event of the dead client, or was let go, and leaves
\* the loop.
WriteLoopNewEvent(c) ==
  /\ writeLoop[c] = "newEvent"
  /\ \E chan \in newEvent(ToServerChan, ShutdownChan, [Type |-> "DeadClient", Client |-> c]) :
       ToServerChan' = chan
  /\ WriteLoopEnds(c)
  /\ WorldUnchanged
  /\ UNCHANGED << SendQueueExceeded, closed, WriteChan, ShutdownChan, readLoop >>

\* The reader of session c makes a turn of its loop up to the event it has
\* to send.
ReadLoopTurn(c) ==
  /\ readLoop[c] = "top"
  /\ \E next \in readLoopTurn(ShutdownChan, Conn[c]) :
       readLoop' = [readLoop EXCEPT ![c] = next]
  /\ WorldUnchanged
  /\ UNCHANGED << SendQueueExceeded, closed, WriteChan, ShutdownChan, ToServerChan, Conn, writeLoop >>

\* The reader sent its event, or was let go: after a message it is at the
\* top of the loop again, after a read error it ends.
ReadLoopNewEvent(c) ==
  /\ readLoop[c] \in {"MessageFromClient", "DeadClient"}
  /\ \E chan \in newEvent(ToServerChan, ShutdownChan, [Type |-> readLoop[c], Client |-> c]) :
       ToServerChan' = chan
  /\ readLoop' = [readLoop EXCEPT ![c] = IF @ = "DeadClient" THEN "done" ELSE "top"]
  /\ WorldUnchanged
  /\ UNCHANGED << SendQueueExceeded, closed, WriteChan, ShutdownChan, Conn, writeLoop >>

\* The dispatcher takes the next event; for a dead client it closes the
\* write channel of the session, once (LocalClient.quit).
DispatchEvent ==
  /\ ToServerChan /= << >>
  /\ ToServerChan' = Tail(ToServerChan)
  /\ closed' = IF Head(ToServerChan).Type = "DeadClient"
                  /\ closed[Head(ToServerChan).Client] = 0
               THEN [closed EXCEPT ![Head(ToServerChan).Client] = 1]
               ELSE closed
  /\ WorldUnchanged
  /\ UNCHANGED << SendQueueExceeded, WriteChan, ShutdownChan, Conn, readLoop, writeLoop >>

\* The dispatcher queues a message for a session it has, by
\* LocalClient.maybeQueueMessage, while the write channel has room.
DispatchQueues ==
  \E c \in ShutdownSessions :
    /\ closed[c] = 0
    /\ Len(WriteChan[c]) < WriteChanCap
    /\ \E q \in {LocalClient_maybeQueueMessage(WriteChan[c], SendQueueExceeded[c],
                                                ShutdownMessage)} :
         /\ WriteChan' = [WriteChan EXCEPT ![c] = q.chan]
         /\ SendQueueExceeded' = [SendQueueExceeded EXCEPT ![c] = q.exceeded]
    /\ WorldUnchanged
    /\ UNCHANGED << closed, ShutdownChan, ToServerChan, Conn, readLoop, writeLoop >>

\* The shutdown is broadcast.
Shutdown ==
  /\ ShutdownChan = "open"
  /\ ShutdownChan' = "closed"
  /\ WorldUnchanged
  /\ UNCHANGED << SendQueueExceeded, closed, WriteChan, ToServerChan, Conn, readLoop, writeLoop >>

NextShutdown ==
  \/ \E c \in ShutdownSessions : WriteLoopMessage(c)
  \/ \E c \in ShutdownSessions : WriteLoopClosed(c)
  \/ \E c \in ShutdownSessions : WriteLoopShutdown(c)
  \/ \E c \in ShutdownSessions : WriteLoopNewEvent(c)
  \/ \E c \in ShutdownSessions : ReadLoopTurn(c)
  \/ \E c \in ShutdownSessions : ReadLoopNewEvent(c)
  \/ DispatchEvent
  \/ DispatchQueues
  \/ Shutdown

\* Every reader and writer is a goroutine that runs when it can: a read
\* with a deadline returns and a send that can proceed is made.  The select
\* of the writer takes one of the cases that can proceed at random, so the
\* case of the shutdown, which can proceed each time the writer is at the
\* select, is taken in the end.
FairShutdown ==
  \A c \in ShutdownSessions :
    /\ SF_vars(WriteLoopShutdown(c))
    /\ WF_vars(WriteLoopNewEvent(c))
    /\ WF_vars(ReadLoopTurn(c))
    /\ WF_vars(ReadLoopNewEvent(c))

SpecShutdown == InitShutdown /\ [][NextShutdown]_vars /\ FairShutdown

\* A writer that ended stays ended and nothing receives from its channel.
Undrained ==
  \A c \in ShutdownSessions :
    writeLoop[c] = "done" =>
      /\ writeLoop'[c] = "done"
      /\ Conn'[c] = "closed"
      /\ Len(WriteChan'[c]) >= Len(WriteChan[c])

\* A reader ends at its shutdown check or after a read error, and a read of
\* a closed socket gives the error.
ReaderExit ==
  \A c \in ShutdownSessions :
    /\ readLoop[c] /= "done" /\ readLoop'[c] = "done" =>
         \/ readLoop[c] = "top" /\ ShutdownChan = "closed"
         \/ readLoop[c] = "DeadClient"
    /\ readLoop[c] = "top" /\ Conn[c] = "closed" /\ readLoop'[c] /= "top" =>
         readLoop'[c] \in {"done", "DeadClient"}

\* C27: once ShutdownChan is closed, the writer of every session in the end
\* has left its loop, closed its socket and ended, whether or not its write
\* channel was closed and whatever it still holds, and receives nothing
\* from the channel afterwards; the reader of the session ends too, at its
\* next shutdown check or by the read error the closed socket gives.
C27_Shutdown ==
  /\ \A c \in ShutdownSessions :
       (ShutdownChan = "closed") ~> (writeLoop[c] = "done" /\ Conn[c] = "closed")
  /\ \A c \in ShutdownSessions :
       (ShutdownChan = "closed") ~> (readLoop[c] = "done")
  /\ [][Undrained /\ ReaderExit]_vars

\* We shut down; the writer of session 1 ended and closed the socket with a
\* message left in its write channel, which was never closed, and the reader
\* ended.
C27_Witness ==
  /\ ShutdownChan = "closed"
  /\ writeLoop[1] = "done" /\ Conn[1] = "closed" /\ readLoop[1] = "done"
  /\ closed[1] = 0
  /\ WriteChan[1] /= << >>

-----------------------------------------------------------------------------
(* Channel ops by TMODE: two peers are linked and a local user is
   registered.  The first peer introduces two users and puts them and the
   local user on #a, also with a user nobody introduced in the list; both
   peers change the ops of the channel with TMODE. *)

TmodeUidInputs ==
  { UIDOf(<< "b" >>, "100", << "+", "i" >>, << "v" >>, "host", uidP),
    UIDOf(<< "c" >>, "100", << "+", "i" >>, << "v" >>, "host", uidQ) }
TmodeSjoinInputs ==
  { Msg("", "SJOIN", << "100", "#a", {"n"}, << Opped(uidP), Plain(uidLocal) >> >>),
    Msg("", "SJOIN", << "100", "#a", {"n"}, << Plain(uidQ) >> >>),
    Msg("", "SJOIN", << "100", "#a", {"n"}, << Plain(uidLocal), Plain(uidUnknown) >> >>) }

\* The mode changes of the TMODEs with their parameters: one change, two, a
\* change of direction, a mode without a parameter between, an unknown user
\* first, a parameter missing, no sign, and the same user twice.
TmodeChangeInputs ==
  { << << "+", "o" >>, uidLocal >>,
    << << "-", "o" >>, uidP >>,
    << << "+", "o", "o" >>, uidLocal, uidQ >>,
    << << "+", "o", "-", "o" >>, uidLocal, uidP >>,
    << << "+", "n", "o" >>, uidQ >>,
    << << "+", "o", "o" >>, uidUnknown, uidLocal >>,
    << << "-", "o", "+", "o" >>, uidP >>,
    << << "o" >>, uidQ >>,
    << << "-", "o", "+", "o" >>, uidP, uidP >> }
TmodeTsInputs == {"40", "100", "160"}
TmodeOpsInputs ==
  { Msg("", "TMODE", << ts, "#a" >> \o change) :
      ts \in TmodeTsInputs, change \in TmodeChangeInputs }
  \cup { Msg(uidP, "TMODE", << "100", "#a" >> \o change) : change \in TmodeChangeInputs }

TmodeUID ==
  \E c \in DOMAIN LocalServers \cap {1}, m \in TmodeUidInputs :
    Install(uidCommand(Begin(c, m), c, WithPrefix(W, c, m)))
TmodeSJOIN ==
  \E c \in DOMAIN LocalServers \cap {1}, m \in TmodeSjoinInputs :
    Install(sjoinCommand(Begin(c, m), c, WithPrefix(W, c, m)))
TmodeTMODE ==
  \E c \in DOMAIN LocalServers, m \in TmodeOpsInputs :
    Install(tmodeCommand(Begin(c, m), c, WithPrefix(W, c, m)))

InitTmode == IsWorld(PeersAndUser)

NextTmode ==
  \/ TmodeUID
  \/ TmodeSJOIN
  \/ TmodeTMODE
  \/ DeadServer

SpecTmode == InitTmode /\ [][NextTmode]_vars

\* The step handles a TMODE of a known origin for a known channel with a
\* time stamp that parses.
HandlesTMODE ==
  /\ last'.m.Command = "TMODE"
  /\ last'.c \in DOMAIN LocalServers
  /\ Len(last'.m.Params) >= 3
  /\ \/ Has(Users, WithPrefix(W, last'.c, last'.m).Prefix)
     \/ Has(Servers, WithPrefix(W, last'.c, last'.m).Prefix)
  /\ ParsesAsInt(last'.m.Params[1])
  /\ Has(Channels, canonicalizeChannel(last'.m.Params[2]))

\* The changes of ops a mode string asks for, in order: each o with the
\* direction in force and the number of the o among the o of the string.
RECURSIVE OpChanges(_, _, _)
OpChanges(chars, action, k) ==
  IF chars = << >> THEN << >>
  ELSE IF Head(chars) \in {"+", "-"} THEN OpChanges(Tail(chars), Head(chars), k)
  ELSE IF Head(chars) = "o"
  THEN << [action |-> action, k |-> k] >> \o OpChanges(Tail(chars), action, k + 1)
  ELSE OpChanges(Tail(chars), action, k)

\* The ops after the changes of a MODE line are made one after the other on
\* the ops given, the users named by nick; ok is whether each change changed
\* something.
RECURSIVE ReplayOps(_, _, _, _)
ReplayOps(ops, changes, params, ok) ==
  IF changes = << >> THEN [ops |-> ops, ok |-> ok /\ params = << >>]
  ELSE IF params = << >> \/ ~Has(Nicks, canonicalizeNick(Head(params)))
  THEN [ops |-> ops, ok |-> FALSE]
  ELSE LET uid == Nicks[canonicalizeNick(Head(params))]
           next == IF Head(changes).action = "+" THEN ops \cup {uid} ELSE ops \ {uid}
       IN  ReplayOps(next, Tail(changes), Tail(params), ok /\ next /= ops)

\* The local users among the members of a channel, by session.
LocalMembers(channel) ==
  { Users[u].Local : u \in { x \in channel.Members : Has(Users, x) /\ User_isLocal(Users[x]) } }

\* The MODE lines the step queued.
ModesQueued == SelectSeq(out', LAMBDA e : e.msg.Command = "MODE")

\* A TMODE with a time stamp above that of the channel changes no ops and
\* tells nobody.
TmodeNewerIgnored(m, ch) ==
  ParseInt(m.Params[1]) > ChanObjs[ch].TS =>
    /\ ChanObjs'[ch].Ops = ChanObjs[ch].Ops
    /\ out' = << >>

\* The k-th o of the string has the k-th parameter after the string: a user
\* gets or loses ops only as such a pair says, and only a known user.
TmodeOneParameterEach(m, ch) ==
  LET changes == OpChanges(m.Params[3], "+", 1)
      asked(uid, action) ==
        \E i \in DOMAIN changes :
          /\ changes[i].action = action
          /\ 3 + changes[i].k <= Len(m.Params)
          /\ m.Params[3 + changes[i].k] = uid
  IN  /\ \A uid \in ChanObjs'[ch].Ops \ ChanObjs[ch].Ops :
           Has(Users, uid) /\ asked(uid, "+")
      /\ \A uid \in ChanObjs[ch].Ops \ ChanObjs'[ch].Ops :
           Has(Users, uid) /\ asked(uid, "-")

\* Only the ops of members change.
TmodeMembersOnly(ch) ==
  \A uid \in (ChanObjs'[ch].Ops \ ChanObjs[ch].Ops)
               \cup (ChanObjs[ch].Ops \ ChanObjs'[ch].Ops) :
    uid \in ChanObjs[ch].Members

\* MODE lines go to the local members only, one each and the same to all;
\* the changes of the line, made in order on the ops of the channel, each
\* change something and give the ops the channel has now; without a line the
\* ops are as they were.
TmodeToldExactly(ch) ==
  /\ \A i \in DOMAIN ModesQueued : ModesQueued[i].to \in LocalMembers(ChanObjs[ch])
  /\ \A i, j \in DOMAIN ModesQueued :
       /\ ModesQueued[i].msg = ModesQueued[j].msg
       /\ ModesQueued[i].to = ModesQueued[j].to => i = j
  /\ IF ModesQueued = << >>
     THEN ChanObjs'[ch].Ops = ChanObjs[ch].Ops \/ LocalMembers(ChanObjs[ch]) = {}
     ELSE /\ { ModesQueued[i].to : i \in DOMAIN ModesQueued } = LocalMembers(ChanObjs[ch])
          /\ LET line == ModesQueued[1].msg
                 replay == ReplayOps(ChanObjs[ch].Ops, OpChanges(line.Params[2], "+", 1),
                                     SubSeq(line.Params, 3, Len(line.Params)), TRUE)
             IN  /\ line.Params[1] = ChanObjs[ch].Name
                 /\ replay.ok
                 /\ replay.ops = ChanObjs'[ch].Ops

\* C28: a TMODE with a time stamp above that of the channel changes no ops;
\* otherwise each o of the mode string takes the next parameter, ops are
\* given and taken only as these pairs say and only for known users that are
\* members of the channel, and each local member is sent one MODE that lists
\* exactly the changes made.
C28_Tmode ==
  [][HandlesTMODE =>
       LET m == WithPrefix(W, last'.c, last'.m)
           ch == Channels[canonicalizeChannel(m.Params[2])]
       IN  /\ Has(ChanObjs', ch)
           /\ TmodeNewerIgnored(m, ch)
           /\ TmodeOneParameterEach(m, ch)
           /\ TmodeMembersOnly(ch)
           /\ TmodeToldExactly(ch)
     ]_vars

\* The Channels map of each user names channel objects of the table.
UsersOnTableChannels ==
  \A uid \in DOMAIN Users : \A name \in DOMAIN Users[uid].Channels :
    Has(Channels, name) /\ Users[uid].Channels[name] = Channels[name]

\* The property of C28 in the steps from a state in which the Channels map of
\* each user names channel objects of the table.
TmodeOnTableChannels ==
  [][HandlesTMODE /\ UsersOnTableChannels =>
       LET m == WithPrefix(W, last'.c, last'.m)
           ch == Channels[canonicalizeChannel(m.Params[2])]
       IN  /\ Has(ChanObjs', ch)
           /\ TmodeNewerIgnored(m, ch)
           /\ TmodeOneParameterEach(m, ch)
           /\ TmodeMembersOnly(ch)
           /\ TmodeToldExactly(ch)
     ]_vars

\* Apart from the members, the property of C28 holds in every step.
TmodeButMembers ==
  [][HandlesTMODE =>
       LET m == WithPrefix(W, last'.c, last'.m)
           ch == Channels[canonicalizeChannel(m.Params[2])]
       IN  /\ Has(ChanObjs', ch)
           /\ TmodeNewerIgnored(m, ch)
           /\ TmodeOneParameterEach(m, ch)
           /\ TmodeToldExactly(ch)
     ]_vars

\* A TMODE gave ops on the #a of the table to the local user, who is not a
\* member of it.
C28_Witness ==
  /\ last.m.Command = "TMODE"
  /\ Has(Channels, "#a")
  /\ uidLocal \in ChanObjs[Channels["#a"]].Ops
  /\ uidLocal \notin ChanObjs[Channels["#a"]].Members
  /\ uidLocal \in SeqToSet(last.m.Params)

\* A TMODE gave ops to the local user and took them from another member: the
\* local user was sent one MODE with both changes.
ToldBothChanges ==
  /\ last.m.Command = "TMODE"
  /\ Has(Channels, "#a")
  /\ {uidLocal, uidP} \subseteq ChanObjs[Channels["#a"]].Members
  /\ Len(OutTo(W, 3)) = 1
  /\ OutTo(W, 3)[1].msg.Command = "MODE"
  /\ OutTo(W, 3)[1].msg.Params = << "#a", << "+", "o", "-", "o" >>, << "a" >>, << "b" >> >>

-----------------------------------------------------------------------------
(* The order of a burst: a peer is linked, a second connection is one
   message before its promotion and a local user is registered.  The peer
   introduces a server behind it and one behind that, users on itself and
   on the server behind it, and channels with a topic; then the second
   connection sends its SVINFO and is sent the burst. *)

\* The second connection sent PASS, CAPAB and SERVER; the third is a user.
PendingAndUser ==
  After(After(newClient(After(After(PeerAndPending,
                                    2, Msg("", "CAPAB", << << "QS", "ENCAP", "TB" >> >>)),
                              2, Msg("", "SERVER", << "irc3", "1", "desc" >>))),
              3, Msg("", "NICK", << << "a" >> >>)),
        3, Msg("", "USER", << << "u" >>, "0", "*", "real" >>))

\* irc4 on the peer and irc5 on irc4, the latter with the hop count of its
\* place in the tree or with a hop count of 1.
OrderSidInputs ==
  { Msg("", "SID", << "irc4", "2", "004", "desc" >>),
    Msg("004", "SID", << "irc5", "3", "005", "desc" >>),
    Msg("004", "SID", << "irc5", "1", "005", "desc" >>) }
OrderUidInputs ==
  { UIDOf(<< "b" >>, "100", << "+", "i" >>, << "v" >>, "host", uidP),
    Msg("004", "UID", << << "e" >>, "2", "100", << "+", "i" >>, << "v" >>, "host", "ip",
                         uidR, "real" >>) }
OrderSjoinInputs ==
  { Msg("", "SJOIN", << "100", "#a", {"n"}, << Opped(uidP), Plain(uidLocal) >> >>),
    Msg("", "SJOIN", << "100", "#b", {"n", "s"}, << Plain(uidR) >> >>) }
OrderUserInputs ==
  { Msg(uidP, "TOPIC", << "#a", << "t" >> >>), Msg(uidP, "AWAY", << << "g" >> >>) }

OrderSID ==
  \E c \in DOMAIN LocalServers \cap {1}, m \in OrderSidInputs :
    Install(sidCommand(Begin(c, m), c, WithPrefix(W, c, m)))
OrderUID ==
  \E c \in DOMAIN LocalServers \cap {1}, m \in OrderUidInputs :
    Install(uidCommand(Begin(c, m), c, WithPrefix(W, c, m)))
OrderSJOIN ==
  \E c \in DOMAIN LocalServers \cap {1}, m \in OrderSjoinInputs :
    Install(sjoinCommand(Begin(c, m), c, WithPrefix(W, c, m)))
OrderTOPIC ==
  \E c \in DOMAIN LocalServers \cap {1}, now \in Times :
    LET m == Msg(uidP, "TOPIC", << "#a", << "t" >> >>)
    IN  Install(topicCommand(Begin(c, m), c, m, now))
OrderAWAY ==
  \E c \in DOMAIN LocalServers \cap {1} :
    LET m == Msg(uidP, "AWAY", << << "g" >> >>)
    IN  Install(awayCommand(Begin(c, m), c, m))
OrderSVINFO ==
  \E c \in DOMAIN LocalClients \cap {2} :
    ClientMessage(c, Msg("", "SVINFO", << "6", "6", "0", "100" >>))

InitOrder == IsWorld(PendingAndUser)

NextOrder ==
  \/ OrderSID
  \/ OrderUID
  \/ OrderSJOIN
  \/ OrderTOPIC
  \/ OrderAWAY
  \/ OrderSVINFO
  \/ DeadServer

SpecOrder == InitOrder /\ [][NextOrder]_vars

\* The messages the step queued for the second connection, in order.
BurstSent == [i \in DOMAIN SelectSeq(out', LAMBDA e : e.to = 2) |->
                SelectSeq(out', LAMBDA e : e.to = 2)[i].msg]

\* The step makes the second connection a peer.
Promotes2 == Has(LocalClients, 2) /\ Has(LocalServers', 2)

\* The servers come by ascending hop count, each under our SID or under a
\* server the burst introduced before, and the peer itself is not among them.
ServersInOrder(burst) ==
  \A i \in DOMAIN burst :
    burst[i].Command = "SID" =>
      /\ \/ burst[i].Prefix = OurSID
         \/ \E j \in 1..(i - 1) :
              burst[j].Command = "SID" /\ burst[j].Params[3] = burst[i].Prefix
      /\ \A j \in 1..(i - 1) :
           burst[j].Command = "SID" =>
             ParseInt(burst[j].Params[2]) <= ParseInt(burst[i].Params[2])
      /\ burst[i].Params[3] /= ServerObjs'[LocalServers'[2].Server].SID

\* Every SID comes before every UID, and every UID before every SJOIN and
\* TB; the UIDs an SJOIN lists were introduced before it.
KindsInOrder(burst) ==
  \A i, j \in DOMAIN burst :
    /\ burst[i].Command = "SID" /\ burst[j].Command = "UID" => i < j
    /\ burst[i].Command = "UID" /\ burst[j].Command \in {"SJOIN", "TB"} => i < j
    /\ burst[j].Command = "SJOIN" =>
         \A k \in DOMAIN burst[j].Params[4] :
           \E n \in 1..(j - 1) :
             burst[n].Command = "UID" /\ burst[n].Params[8] = burst[j].Params[4][k].uid

\* C29: in the burst sent to a newly linked peer the servers are introduced
\* in ascending hop count, so that the prefix of every SID is our SID or the
\* SID of a server introduced earlier in the burst; the peer itself is not
\* introduced; every SID comes before every UID and every UID before every
\* SJOIN and TB, so that the UIDs of an SJOIN were introduced before it.
C29_BurstOrder ==
  [][Promotes2 => ServersInOrder(BurstSent) /\ KindsInOrder(BurstSent)]_vars

\* The property of C29 for the bursts sent from a state in which the servers
\* of the table form a tree with hop counts that grow.
OrderOfServerTree ==
  [][Promotes2 /\ ServerTree => ServersInOrder(BurstSent) /\ KindsInOrder(BurstSent)]_vars

\* Apart from the prefix of the SIDs, the property of C29 holds in every
\* burst.
OrderButPrefix ==
  [][Promotes2 =>
       /\ KindsInOrder(BurstSent)
       /\ \A i \in DOMAIN BurstSent :
            BurstSent[i].Command = "SID" =>
              /\ \A j \in 1..(i - 1) :
                   BurstSent[j].Command = "SID" =>
                     ParseInt(BurstSent[j].Params[2]) <= ParseInt(BurstSent[i].Params[2])
              /\ BurstSent[i].Params[3] /= ServerObjs'[LocalServers'[2].Server].SID
     ]_vars

\* The burst for the second connection put irc5, stored with the hop count
\* 1, under irc4 before it introduced irc4.
C29_Witness ==
  /\ last = [c |-> 2, m |-> Msg("", "SVINFO", << "6", "6", "0", "100" >>)]
  /\ Has(LocalServers, 2)
  /\ \E i, j \in DOMAIN OutTo(W, 2) :
       /\ i < j
       /\ OutTo(W, 2)[i].msg = Msg("004", "SID", << "irc5", "2", "005", "desc" >>)
       /\ OutTo(W, 2)[j].msg = Msg("002", "SID", << "irc4", "3", "004", "desc" >>)

\* A burst with the servers of three hop counts, users of three servers, an
\* AWAY, two channels and a topic.
FullBurst ==
  /\ last.c = 2 /\ Has(LocalServers, 2)
  /\ ServerTree
  /\ Len(OutTo(W, 2)) = 15
  /\ {"SID", "UID", "AWAY", "SJOIN", "TB"} \subseteq SeqToSet(OutCommands(W, 2))
  /\ \E i \in DOMAIN OutTo(W, 2) :
       OutTo(W, 2)[i].msg = Msg("004", "SID", << "irc5", "4", "005", "desc" >>)

-----------------------------------------------------------------------------
(* The SJOINs of a channel in a burst.  The loop of sendBurst over the
   members of one channel is followed member by member, for channels with
   up to MaxMembers members, some of them with ops, and with short and long
   time stamps and names. *)

MaxMembers == 100

\* The numbers of members: none, one, two, around the number a line holds,
\* and the last eleven up to MaxMembers.
PackSizes == {0, 1, 2} \cup 40..50 \cup (MaxMembers - 10)..MaxMembers

\* The lengths of the time stamp and of the name of the channel.
PackChannels ==
  { [tsLength |-> 1, nameLength |-> 2], [tsLength |-> 10, nameLength |-> 4],
    [tsLength |-> 19, nameLength |-> 50] }

\* Which members have ops: every k-th, or none (k = 0).
PackOps == {0, 1, 2, 3}

InitPack ==
  /\ LocalClients = EmptyMap /\ LocalUsers = EmptyMap /\ LocalServers = EmptyMap
  /\ Servers = EmptyMap /\ ServerObjs = EmptyMap /\ Users = EmptyMap
  /\ Nicks = EmptyMap /\ Opers = {} /\ Channels = EmptyMap /\ ChanObjs = EmptyMap
  /\ KLines = << >> /\ closed = EmptyMap /\ nextID = 1 /\ out = << >>
  /\ last = [c |-> 0, m |-> Msg("", "", << >>)]
  /\ accepted = EmptyMap /\ WriteChan = EmptyMap /\ SendQueueExceeded = EmptyMap
  /\ remote = NoRemote
  /\ NoWorkers
  /\ \E n \in PackSizes, c \in PackChannels, k \in PackOps :
       packing = [ tsLength |-> c.tsLength, nameLength |-> c.nameLength,
                   members |-> [i \in 1..n |-> makeTS6UID(i)],
                   ops |-> { makeTS6UID(i) : i \in { j \in 1..n : k > 0 /\ j % k = 0 } },
                   next |-> 1, uids |-> << >>, sent |-> << >>, done |-> FALSE ]

PackWorldUnchanged ==
  UNCHANGED << LocalClients, LocalUsers, LocalServers, Servers, ServerObjs, Users,
               Nicks, Opers, Channels, ChanObjs, KLines, closed, nextID, out, last,
               accepted, WriteChan, SendQueueExceeded, remote, ShutdownChan,
               ToServerChan, Conn, readLoop, writeLoop >>

\* The loop takes the next member of the channel.
PackMember ==
  /\ ~packing.done
  /\ packing.next <= Len(packing.members)
  /\ LET uid == packing.members[packing.next]
         st == sjoinAddMember([uids |-> packing.uids, sent |-> packing.sent],
                              [op |-> uid \in packing.ops, uid |-> uid],
                              sjoinEncodedLength(packing.tsLength, packing.nameLength, << >>))
     IN  packing' = [packing EXCEPT !.next = @ + 1, !.uids = st.uids, !.sent = st.sent]
  /\ PackWorldUnchanged

\* The loop is over: what is left of the list goes out.
PackRest ==
  /\ ~packing.done
  /\ packing.next > Len(packing.members)
  /\ LET st == sjoinRest([uids |-> packing.uids, sent |-> packing.sent])
     IN  packing' = [packing EXCEPT !.uids = st.uids, !.sent = st.sent, !.done = TRUE]
  /\ PackWorldUnchanged

NextPack ==
  \/ PackMember
  \/ PackRest

SpecPack == InitPack /\ [][NextPack]_vars

\* The members the loop has taken, as an SJOIN lists them.
MembersTaken ==
  [i \in 1..(packing.next - 1) |->
     [op |-> packing.members[i] \in packing.ops, uid |-> packing.members[i]]]

FullLine ==
  \E i \in DOMAIN packing.sent :
    sjoinEncodedLength(packing.tsLength, packing.nameLength, packing.sent[i]) = MaxLineLength

-----------------------------------------------------------------------------
(* C31: who the TOPIC of an accepted TB comes from. *)

\* The TOPIC lines the step queued for session c.
TopicsTo(c) ==
  SelectSeq(out', LAMBDA e : e.to = c /\ e.msg.Command = "TOPIC")

\* The step handles a TB that names a setter and takes its topic.
AcceptsTBWithSetter ==
  /\ HandlesTB
  /\ Len(last'.m.Params) >= 4
  /\ LET ch == Channels[canonicalizeChannel(last'.m.Params[1])]
     IN  ChanObjs'[ch].Topic /= ChanObjs[ch].Topic

\* C31: when a TB is accepted, each local member of the channel is sent a
\* TOPIC whose prefix is the topic setter given in the TB and whose parameters
\* are the channel and the new topic.
C31_TbTopic ==
  [][AcceptsTBWithSetter =>
       LET m == last'.m
           old == ChanObjs[Channels[canonicalizeChannel(m.Params[1])]]
       IN  \A c \in LocalMembers(old) :
             \E i \in DOMAIN TopicsTo(c) :
               /\ TopicsTo(c)[i].msg.Params = << old.Name, m.Params[4] >>
               /\ ToString(TopicsTo(c)[i].msg.Prefix) = ToString(m.Params[3])
     ]_vars

\* What the code does: each local member is sent one TOPIC with the channel
\* and the new topic, from the name of the server in the prefix of the TB,
\* whether the TB names a setter or not.
TbTopicFromServer ==
  [][HandlesTB =>
       LET m == WithPrefix(W, last'.c, last'.m)
           ch == Channels[canonicalizeChannel(m.Params[1])]
           old == ChanObjs[ch]
       IN  ChanObjs'[ch].Topic /= old.Topic =>
             \A c \in LocalMembers(old) :
               /\ Len(TopicsTo(c)) = 1
               /\ TopicsTo(c)[1].msg =
                    Msg(ServerObjs[Servers[m.Prefix]].Name, "TOPIC",
                        << old.Name, m.Params[Len(m.Params)] >>)
     ]_vars

\* A TB of the first peer with the setter b and the topic x was accepted: the
\* channel has the topic with that setter, and the local member was sent the
\* TOPIC from irc2.
C31_Witness ==
  /\ last.m = Msg("", "TB", << "#a", "40", << "b" >>, << "x" >> >>)
  /\ last.c = 1
  /\ Has(Channels, "#a")
  /\ uidLocal \in ChanObjs[Channels["#a"]].Members
  /\ TopicOf(ChanObjs[Channels["#a"]]) = << << "x" >>, << "b" >>, 40 >>
  /\ Len(OutTo(W, 3)) = 1
  /\ OutTo(W, 3)[1].msg.Command = "TOPIC"
  /\ OutTo(W, 3)[1].msg.Prefix = "irc2"
  /\ OutTo(W, 3)[1].msg.Params = << "#a", << "x" >> >>

-----------------------------------------------------------------------------
(* Routing: two peers are linked and a local user is registered.  The first
   peer introduces a user, an operator, the server irc4 behind it and a user
   on irc4; the second peer introduces a user; the users meet on #a.  Either
   peer then sends the messages that are routed to one target: PRIVMSG and
   NOTICE, PING and PONG for another server, a numeric, INVITE, and the
   SQUIT of an operator. *)

\* The user of the second peer.
uidT == "003AAAAAB"

RouteUidInputs ==
  { UIDOf(<< "b" >>, "100", << "+", "i" >>, << "v" >>, "host", uidP),
    UIDOf(<< "c" >>, "100", << "+", "o" >>, << "v" >>, "host", uidQ),
    Msg("004", "UID", << << "e" >>, "2", "100", << "+", "i" >>, << "v" >>, "host", "ip",
                         uidR, "real" >>) }
RouteUid2Inputs ==
  { UIDOf(<< "t" >>, "100", << "+", "i" >>, << "v" >>, "host", uidT) }
RouteSidInputs == { Msg("", "SID", << "irc4", "2", "004", "desc" >>) }
RouteSjoinInputs ==
  { [c |-> 1, m |-> Msg("", "SJOIN", << "100", "#a", {"n"},
                        << Plain(uidLocal), Plain(uidP) >> >>)],
    [c |-> 2, m |-> Msg("", "SJOIN", << "100", "#a", {"n"}, << Plain(uidT) >> >>)] }

RoutePrivmsgInputs ==
  { Msg(uidP, cmd, << target, "hi" >>) :
      cmd \in {"PRIVMSG", "NOTICE"}, target \in {uidLocal, uidP, uidR, uidT, "#a"} }
  \cup { Msg(uidT, "PRIVMSG", << target, "hi" >>) : target \in {uidP, "#a"} }
  \cup { Msg("", cmd, << uidLocal, "hi" >>) : cmd \in {"PRIVMSG", "NOTICE"} }
  \cup { Msg(uidP, "PRIVMSG", << >>), Msg(uidP, "PRIVMSG", << uidT >>) }
RoutePingInputs ==
  { Msg("", "PING", << "x", dest >>) : dest \in {"002", "003", "004"} }
RoutePongInputs ==
  { Msg("", "PONG", << "x", dest >>) : dest \in {"002", "003", "004"} }
RouteNumericInputs ==
  { Msg("", "401", << target, "x", "No such nick/channel" >>) :
      target \in {uidLocal, uidP, uidT} }
RouteInviteInputs ==
  { Msg(uidP, "INVITE", << target, "#a" >>) : target \in {uidLocal, uidQ, uidT} }
  \cup { Msg(uidP, "INVITE", << uidT, "#a", ts >>) : ts \in {"40", "160", "x"} }
  \cup { Msg(uidP, "INVITE", << uidT >>) }
RouteSquitInputs == { Msg(uidQ, "SQUIT", << "004", "r" >>) }

RouteUID ==
  \E c \in DOMAIN LocalServers \cap {1}, m \in RouteUidInputs :
    Install(uidCommand(Begin(c, m), c, WithPrefix(W, c, m)))
RouteUID2 ==
  \E c \in DOMAIN LocalServers \cap {2}, m \in RouteUid2Inputs :
    Install(uidCommand(Begin(c, m), c, WithPrefix(W, c, m)))
RouteSID ==
  \E c \in DOMAIN LocalServers \cap {1}, m \in RouteSidInputs :
    Install(sidCommand(Begin(c, m), c, WithPrefix(W, c, m)))
\* A peer lists the users it knows to be on the network.
RouteSJOIN ==
  \E e \in RouteSjoinInputs :
    /\ e.c \in DOMAIN LocalServers
    /\ \A i \in DOMAIN e.m.Params[4] : Has(Users, e.m.Params[4][i].uid)
    /\ Install(sjoinCommand(Begin(e.c, e.m), e.c, WithPrefix(W, e.c, e.m)))
RoutePRIVMSG ==
  \E c \in DOMAIN LocalServers, m \in RoutePrivmsgInputs :
    Install(privmsgCommand(Begin(c, m), c, WithPrefix(W, c, m)))
RoutePING ==
  \E c \in DOMAIN LocalServers, m \in RoutePingInputs :
    Install(pingCommand(Begin(c, m), c, WithPrefix(W, c, m)))
RoutePONG ==
  \E c \in DOMAIN LocalServers, m \in RoutePongInputs :
    Install(pongCommand(Begin(c, m), c, WithPrefix(W, c, m)))
RouteNumeric ==
  \E c \in DOMAIN LocalServers, m \in RouteNumericInputs :
    Install(numericCommand(Begin(c, m), c, WithPrefix(W, c, m)))
RouteINVITE ==
  \E c \in DOMAIN LocalServers, m \in RouteInviteInputs :
    Install(inviteCommand(Begin(c, m), c, WithPrefix(W, c, m)))
RouteSQUIT ==
  \E c \in DOMAIN LocalServers, m \in RouteSquitInputs :
    Install(squitCommand(Begin(c, m), c, WithPrefix(W, c, m)))

InitRoute == IsWorld(PeersAndUser)

NextRoute ==
  \/ RouteUID
  \/ RouteUID2
  \/ RouteSID
  \/ RouteSJOIN
  \/ RoutePRIVMSG
  \/ RoutePING
  \/ RoutePONG
  \/ RouteNumeric
  \/ RouteINVITE
  \/ RouteSQUIT
  \/ DeadServer

SpecRoute == InitRoute /\ [][NextRoute]_vars

-----------------------------------------------------------------------------
(* C32: a routed message and the link it came on. *)

\* The step handles a message of a linked peer that is routed to one target.
HandlesRouted ==
  /\ last'.c \in DOMAIN LocalServers
  /\ \/ last'.m.Command \in {"PRIVMSG", "NOTICE", "PING", "PONG", "INVITE", "SQUIT"}
     \/ isNumericCommand(last'.m.Command)

\* The step queued the message it handled on the link it came on.
SentBack ==
  \E i \in DOMAIN out' :
    /\ out'[i].to = last'.c
    /\ out'[i].msg.Command = last'.m.Command
    /\ out'[i].msg = WithPrefix(W, last'.c, last'.m)

\* C32: no handler queues a received message back onto the peer it arrived
\* on; a message routed to one target (PRIVMSG or NOTICE to a UID, PING or
\* PONG for another SID, a numeric, INVITE, the SQUIT of an operator) whose
\* target is reached through the arrival peer is not sent back to that peer.
C32_NoEcho == [][HandlesRouted => ~SentBack]_vars

\* The link through which the target of a routed message is reached, or 0
\* when the message has no remote target that is known.
TargetLink(m) ==
  LET p == IF m.Command \in {"PING", "PONG", "SQUIT"} /\ Len(m.Params) >= 2
           THEN IF m.Command = "SQUIT" THEN m.Params[1] ELSE m.Params[2]
           ELSE IF Len(m.Params) >= 1 THEN m.Params[1] ELSE ""
  IN  IF p \in DOMAIN Servers
      THEN IF Server_isLocal(ServerObjs[Servers[p]])
           THEN ServerObjs[Servers[p]].LocalServer
           ELSE ServerObjs[Servers[p]].ClosestServer
      ELSE IF p \in DOMAIN Users /\ ~User_isLocal(Users[p])
      THEN Users[p].ClosestServer
      ELSE 0

\* What the code does: a message is sent back only when it names one target
\* and that target is reached through the link the message came on; a
\* message for a channel is never sent back.
SentBackOnlyToTarget ==
  [][HandlesRouted /\ SentBack =>
       TargetLink(WithPrefix(W, last'.c, last'.m)) = last'.c]_vars

\* The first peer sent a PRIVMSG of its user b for the user e on irc4, the
\* server behind the first peer itself, and was sent the PRIVMSG back.
C32_Witness ==
  /\ last = [c |-> 1, m |-> Msg(uidP, "PRIVMSG", << uidR, "hi" >>)]
  /\ Has(Users, uidR)
  /\ Users[uidR].ClosestServer = 1
  /\ out = << [to |-> 1, msg |-> Msg(uidP, "PRIVMSG", << uidR, "hi" >>)] >>

-----------------------------------------------------------------------------
(* Who introduces whom: two peers are linked, and either introduces users
   and a server with its own SID, the SID of the other peer or the SID of
   the server behind a peer as prefix; a link is lost. *)

CrossUidInputs ==
  { Msg(p, "UID", << << "b" >>, "2", "100", << "+", "i" >>, << "v" >>, "host", "ip",
                     uidP, "real" >>) : p \in {"002", "003", "004"} }
  \cup
  { Msg(p, "UID", << << "t" >>, "2", "100", << "+", "i" >>, << "v" >>, "host", "ip",
                     uidT, "real" >>) : p \in {"002", "003", "004"} }
CrossSidInputs ==
  { Msg(p, "SID", << "irc4", "2", "004", "desc" >>) : p \in {"002", "003"} }

CrossUID ==
  \E c \in DOMAIN LocalServers, m \in CrossUidInputs :
    Install(uidCommand(Begin(c, m), c, WithPrefix(W, c, m)))
CrossSID ==
  \E c \in DOMAIN LocalServers, m \in CrossSidInputs :
    Install(sidCommand(Begin(c, m), c, WithPrefix(W, c, m)))

InitCross == IsWorld(TwoPeers)

NextCross ==
  \/ CrossUID
  \/ CrossSID
  \/ DeadServer

SpecCross == InitCross /\ [][NextCross]_vars

\* The link through which a server of the heap is reached.
LinkOf(server) ==
  IF Server_isLocal(server) THEN server.LocalServer ELSE server.ClosestServer

\* The closest server of every remote user and of every server is a link of
\* LocalServers.
ClosestIsLinked ==
  /\ \A uid \in DOMAIN Users :
       ~User_isLocal(Users[uid]) => Users[uid].ClosestServer \in DOMAIN LocalServers
  /\ \A sid \in DOMAIN Servers :
       LinkOf(ServerObjs[Servers[sid]]) \in DOMAIN LocalServers

\* The home server of every remote user is a server of the table that is
\* reached through the closest server of the user.
HomeBehindClosest ==
  \A uid \in DOMAIN Users :
    ~User_isLocal(Users[uid]) =>
      /\ \E sid \in DOMAIN Servers : Servers[sid] = Users[uid].Server
      /\ LinkOf(ServerObjs[Users[uid].Server]) = Users[uid].ClosestServer

\* A server that is not a peer is reached through the link its LinkedTo is
\* reached through.
LinkedBehindClosest ==
  \A sid \in DOMAIN Servers :
    LET server == ServerObjs[Servers[sid]] IN
      ~Server_isLocal(server) =>
        /\ Has(ServerObjs, server.LinkedTo)
        /\ LinkOf(ServerObjs[server.LinkedTo]) = server.ClosestServer

\* C33: in every reachable state the ClosestServer of every remote user and
\* of every remote server is a local peer of LocalServers, and the home
\* server of every remote user is a server of the Servers table reached
\* through that same peer; so after a peer delinks nothing that stays in the
\* tables is reached through it, whatever prefix its UIDs and SIDs named.
C33_ClosestServer == ClosestIsLinked /\ HomeBehindClosest

\* The step handles a UID or SID whose prefix is a server reached through
\* the link the message came on, or it is not a UID or SID.
PrefixBehindLink ==
  last'.m.Command \in {"UID", "SID"} /\ last'.c \in DOMAIN LocalServers =>
    LET p == WithPrefix(W, last'.c, last'.m).Prefix IN
      Has(Servers, p) => LinkOf(ServerObjs[Servers[p]]) = last'.c

\* What the code keeps: a step in which the peer names a server behind
\* itself as prefix keeps the three properties.
ClosestKept ==
  [][ClosestIsLinked /\ HomeBehindClosest /\ LinkedBehindClosest /\ PrefixBehindLink
       => (ClosestIsLinked /\ HomeBehindClosest /\ LinkedBehindClosest)']_vars

\* The first peer introduced the user t with the SID of the second peer as
\* prefix and was lost: t is still a user, of irc3, with the lost link as its
\* closest server.
C33_Witness ==
  /\ DOMAIN LocalServers = {2}
  /\ Has(Users, uidT)
  /\ Users[uidT].ClosestServer = 1
  /\ ServerObjs[Users[uidT].Server].SID = "003"
  /\ closed[1] = 1

-----------------------------------------------------------------------------
(* C34: the channels of a user are channels of the table that list it. *)

ChannelsOfUsers ==
  \A uid \in DOMAIN Users : \A name \in DOMAIN Users[uid].Channels :
    /\ Has(Channels, name)
    /\ Users[uid].Channels[name] = Channels[name]
    /\ uid \in ChanObjs[Channels[name]].Members

\* C34: in every reachable state, for every user u and every channel c of
\* u.Channels, c is the channel the Channels table holds under that name and
\* the UID of u is in the member set of c; also after an SJOIN for a new
\* channel whose list names a known UID and then an unknown one.
C34_ChannelsOfUsers == ChannelsOfUsers

\* The step handles an SJOIN whose list names a UID that is not in Users.
SjoinWithUnknown ==
  /\ last'.m.Command = "SJOIN"
  /\ Len(last'.m.Params) >= 4
  /\ \E i \in DOMAIN last'.m.Params[4] : ~Has(Users, last'.m.Params[4][i].uid)

\* What the code keeps: every step but an SJOIN that names an unknown UID
\* leads from a state with the property to a state with the property.
ChannelsOfUsersKept ==
  [][ChannelsOfUsers /\ ~SjoinWithUnknown => ChannelsOfUsers']_vars

\* An SJOIN for the new channel #a listed the known user d and then a UID
\* that is not known: d has #a in its Channels map, and the Channels table
\* has no #a.
C34_Witness ==
  /\ last.m = Msg("", "SJOIN", << "100", "#a", {"n"}, << Opped(uidOurs), Plain(uidUnknown) >> >>)
  /\ Has(Users, uidOurs)
  /\ Has(Users[uidOurs].Channels, "#a")
  /\ ~Has(Channels, "#a")
  /\ uidOurs \in ChanObjs[Users[uidOurs].Channels["#a"]].Members

-----------------------------------------------------------------------------
(* C35: the SID of a connection at its promotion. *)

\* The step makes the connection c a local server.
PromotedNow(c) == Has(LocalClients, c) /\ Has(LocalServers', c)

\* No two server objects that a table or another object still points to
\* have the same SID.
NoSharedSID ==
  \A o1 \in DOMAIN ServerObjs : \A o2 \in DOMAIN ServerObjs :
    ServerObjs[o1].SID = ServerObjs[o2].SID => o1 = o2

\* C35: the promotion of a connection never replaces an entry of Servers:
\* when registerServer runs, the SID of the connection is not the key of a
\* server of the table, also when a server with that SID was introduced
\* between the PASS of the connection and its SVINFO; hence no two servers
\* share a SID.
C35_PromotionKeepsServers ==
  [][ /\ \A c \in DOMAIN LocalClients :
           PromotedNow(c) => ~Has(Servers, LocalClients[c].PreRegTS6SID)
      /\ NoSharedSID'
    ]_vars

\* Every server object that is pointed to is the server the Servers table
\* holds under its SID.
TableHoldsAll ==
  \A o \in DOMAIN ServerObjs :
    Has(Servers, ServerObjs[o].SID) /\ Servers[ServerObjs[o].SID] = o

\* What the code keeps: as long as no promotion finds its SID in the table,
\* every server stays the one the table holds under its SID, so that no two
\* share a SID.
SharedOnlyByPromotion ==
  [][ /\ TableHoldsAll
      /\ \A c \in DOMAIN LocalClients :
           PromotedNow(c) => ~Has(Servers, LocalClients[c].PreRegTS6SID)
      => TableHoldsAll' /\ NoSharedSID' ]_vars

\* The second connection was promoted with the SID 003 after the first peer
\* had introduced irc4 with that SID and irc5 behind it: the table holds the
\* new peer under 003, and irc5 is linked to another server of the SID 003.
C35_Witness ==
  /\ last.m.Command = "SVINFO"
  /\ last.c = 2
  /\ Has(LocalServers, 2)
  /\ Has(Servers, "003")
  /\ Servers["003"] = LocalServers[2].Server
  /\ Has(Servers, "004")
  /\ ServerObjs[Servers["004"]].LinkedTo /= Servers["003"]
  /\ ServerObjs[ServerObjs[Servers["004"]].LinkedTo].SID = "003"

-----------------------------------------------------------------------------
(* C36: a PRIVMSG or NOTICE from a source that is not known. *)

\* The step handles a PRIVMSG or NOTICE of a linked peer, with a target and
\* a text, whose prefix is neither a user nor, for NOTICE, a server.
FromUnknownSource ==
  /\ last'.c \in DOMAIN LocalServers
  /\ last'.m.Command \in {"PRIVMSG", "NOTICE"}
  /\ Len(last'.m.Params) >= 2
  /\ LET p == WithPrefix(W, last'.c, last'.m).Prefix
     IN  ~Has(Users, p) /\ (last'.m.Command = "NOTICE" => ~Has(Servers, p))

\* The sessions the step queued the text of the message on.
DeliveredTo ==
  { out'[i].to : i \in { j \in DOMAIN out' :
      /\ out'[j].msg.Command = last'.m.Command
      /\ Len(out'[j].msg.Params) = Len(last'.m.Params)
      /\ out'[j].msg.Params[2] = last'.m.Params[2] } }

\* C36: a PRIVMSG or NOTICE received from a peer whose prefix is neither a
\* known user nor, for NOTICE, a known server terminates that link and has
\* no other effect: it is delivered to no local user and forwarded to no
\* other peer.
C36_UnknownSource ==
  [][FromUnknownSource =>
       /\ ~Has(LocalServers', last'.c)
       /\ closed'[last'.c] = closed[last'.c] + 1
       /\ DeliveredTo = {}
    ]_vars

\* What the code does: the link is terminated, and the message is then
\* handled as one with an empty source in the world the quit left.
UnknownSourceQuits ==
  [][FromUnknownSource =>
       /\ ~Has(LocalServers', last'.c)
       /\ closed'[last'.c] = closed[last'.c] + 1
       /\ \A i \in DOMAIN out' :
            out'[i].to \in DeliveredTo /\ out'[i].msg.Command = last'.m.Command
              => out'[i].msg.Prefix \in {"", WithPrefix(W, last'.c, last'.m).Prefix}
    ]_vars

\* The first peer sent a PRIVMSG of a user it never introduced for the local
\* user: the link is closed, and the local user was sent the text without a
\* source.
C36_Witness ==
  /\ last = [c |-> 1, m |-> Msg(uidP, "PRIVMSG", << uidLocal, "hi" >>)]
  /\ ~Has(Users, uidP)
  /\ ~Has(LocalServers, 1)
  /\ closed[1] = 1
  /\ \E i \in DOMAIN out :
       /\ out[i].to = 3
       /\ out[i].msg.Command = "PRIVMSG"
       /\ out[i].msg = Msg("", "PRIVMSG", << << "a" >>, "hi" >>)

-----------------------------------------------------------------------------
(* C37: whose PONG ends the burst. *)

\* The step handles a PONG for our SID on the link c whose source is a
\* server of the table.
PongForUs(c) ==
  /\ last'.c = c
  /\ Has(LocalServers, c)
  /\ last'.m.Command = "PONG"
  /\ Len(last'.m.Params) >= 2
  /\ last'.m.Params[2] = OurSID
  /\ Has(Servers, WithPrefix(W, c, last'.m).Prefix)

\* The source of the message of the step is the peer of the link c itself.
FromPeerItself(c) ==
  WithPrefix(W, c, last'.m).Prefix = ServerObjs[LocalServers[c].Server].SID

\* C37: only a PONG whose source is the directly linked peer itself counts
\* toward the end of the burst of that link: a PONG for our SID that arrives
\* on the link with the prefix of another known server does not set GotPONG
\* and cannot clear the Bursting flag of the link.
C37_PongFromPeer ==
  [][\A c \in DOMAIN LocalServers :
       PongForUs(c) /\ ~FromPeerItself(c) =>
         /\ Has(LocalServers', c)
         /\ LocalServers'[c].GotPONG = LocalServers[c].GotPONG
         /\ LocalServers'[c].Bursting = LocalServers[c].Bursting
    ]_vars

\* What the code does: a PONG for our SID from any server of the table sets
\* GotPONG and ends the burst when the PING was there; a PING for us sets
\* GotPING only when it comes from the peer itself.
PongFromAnyCounts ==
  [][\A c \in DOMAIN LocalServers :
       /\ PongForUs(c) =>
            /\ Has(LocalServers', c)
            /\ LocalServers'[c].GotPONG
            /\ LocalServers[c].GotPING => ~LocalServers'[c].Bursting
       /\ ( /\ last'.c = c
            /\ last'.m.Command = "PING"
            /\ Has(LocalServers', c)
            /\ LocalServers'[c].GotPING /= LocalServers[c].GotPING ) => FromPeerItself(c)
    ]_vars

\* The first peer introduced irc4 with the SID 003 and sent the PONG of 003
\* for us: the link has GotPONG and, the PING of the peer being there, is
\* not bursting.
C37_Witness ==
  /\ last = [c |-> 1, m |-> Msg("003", "PONG", << "irc4", "001" >>)]
  /\ Has(LocalServers, 1)
  /\ ServerObjs[LocalServers[1].Server].SID = "002"
  /\ LocalServers[1].GotPONG
  /\ LocalServers[1].GotPING
  /\ ~LocalServers[1].Bursting

-----------------------------------------------------------------------------
(* Promotion: beside a linked peer, two connections send the messages of a
   user registration and of a server handshake together, in every order;
   users are killed by a linked peer and connections die. *)

PromoteInputs ==
  { Msg("", "NICK", << << "a" >> >>), Msg("", "NICK", << << "b" >> >>),
    Msg("", "USER", << << "u" >>, "0", "*", "real" >>),
    Msg("", "PASS", << "pw3", "TS", "6", "003" >>),
    Msg("", "CAPAB", << << "QS", "ENCAP", "TB" >> >>),
    Msg("", "SERVER", << "irc3", "1", "desc" >>),
    Msg("", "SVINFO", << "6", "6", "0", "100" >>) }
PromoteKillInputs ==
  { Msg("", "KILL", << OurUIDs[i], "path (reason)" >>) : i \in 1..3 }

PromoteRecv ==
  \E c \in DOMAIN LocalClients, m \in PromoteInputs : ClientMessage(c, m)
PromoteKILL ==
  \E c \in DOMAIN LocalServers, m \in PromoteKillInputs :
    Install(killCommand(Begin(c, m), c, WithPrefix(W, c, m)))

\* The peer irc2 is linked on the first connection and another connection
\* was accepted, the second, or the third after the local user a.
InitPromote == IsWorld(newClient(PeerLinked)) \/ IsWorld(newClient(UsWithUser))

NextPromote ==
  \/ DeadClient
  \/ DeadServer
  \/ PromoteRecv
  \/ PromoteKILL

SpecPromote == InitPromote /\ [][NextPromote]_vars

\* The connection ids that were given out.
GivenIDs == 1 .. (nextID - 1)

\* C38 (invariants): the connection ids in LocalClients, LocalUsers and
\* LocalServers are pairwise disjoint in every state and no connection of
\* LocalClients has its write channel closed by a quit, and in every step a
\* connection that is not in LocalClients (promoted, or quit) does not come
\* back to LocalClients, enters LocalUsers or LocalServers only from
\* LocalClients, and a new user or server peer is no longer in LocalClients.
PairwiseDisjoint ==
  /\ DOMAIN LocalClients \cap DOMAIN LocalUsers = {}
  /\ DOMAIN LocalClients \cap DOMAIN LocalServers = {}
  /\ DOMAIN LocalUsers \cap DOMAIN LocalServers = {}
  /\ \A c \in DOMAIN LocalClients : closed[c] = 0
PromotedOnce ==
  /\ \A c \in GivenIDs :
       ~Has(LocalClients, c) => ~Has(LocalClients', c)
  /\ \A c \in DOMAIN LocalUsers' \ DOMAIN LocalUsers :
       Has(LocalClients, c) /\ ~Has(LocalServers', c)
  /\ \A c \in DOMAIN LocalServers' \ DOMAIN LocalServers :
       Has(LocalClients, c) /\ ~Has(LocalUsers', c)
C38_Disjoint == []PairwiseDisjoint /\ [][PromotedOnce]_vars

\* The third connection sent PASS, CAPAB, SERVER, NICK and USER and is a local
\* user beside the user of the second connection and the peer of the first;
\* it is no local client and no server peer.
SentCommands(c) == { accepted[c][i].Command : i \in DOMAIN accepted[c] }
C38_Witness ==
  /\ DOMAIN LocalUsers = {2, 3}
  /\ DOMAIN LocalServers = {1}
  /\ DOMAIN LocalClients = {}
  /\ {"PASS", "CAPAB", "SERVER", "NICK", "USER"} \subseteq SentCommands(3)
-----------------------------------------------------------------------------
(* The time stamp of a channel: a linked peer and a local user; the users of
   the peer join, leave, are listed in SJOINs and invite, and the peer sends
   TMODE, TB and TOPIC, with time stamps older than, equal to and newer than
   the one the channel has. *)

StampTimes == {"40", "100", "160"}
StampUidInputs ==
  { UIDOf(<< "b" >>, "100", << "+", "i" >>, << "v" >>, "host", uidP),
    UIDOf(<< "c" >>, "100", << "+", "i" >>, << "v" >>, "host", uidQ) }
StampSjoinInputs ==
  { Msg("", "SJOIN", << ts, "#a", {"n"}, us >>) :
      ts \in StampTimes, us \in { << Opped(uidP), Plain(uidOurs) >>, << Plain(uidUnknown), Plain(uidQ) >> } }
  \cup { Msg("", "SJOIN", << "x", "#a", {"n"}, << Opped(uidP) >> >>) }
StampJoinInputs ==
  { Msg(uidQ, "JOIN", << ts, "#a", "+" >>) : ts \in StampTimes }
  \cup { Msg(uidP, "JOIN", << "0" >>), Msg(uidQ, "JOIN", << "40", "#a", "-" >>) }
StampTmodeInputs ==
  { Msg("", "TMODE", << ts, "#a", << "+", "n" >> >>) : ts \in StampTimes }
  \cup { Msg("", "TMODE", << "40", "#a", << "-", "o" >>, uidP >>) }
StampTbInputs == { Msg("", "TB", << "#a", ts, << "t" >> >>) : ts \in StampTimes }
StampTopicInputs == { Msg(uidP, "TOPIC", << "#a", << "t" >> >>) }
StampPartInputs == { Msg(u, "PART", << << "#a" >> >>) : u \in {uidP, uidQ} }
StampInviteInputs ==
  { Msg(uidP, "INVITE", << uidOurs, "#a" >>) }
  \cup { Msg(uidP, "INVITE", << uidOurs, "#a", ts >>) : ts \in StampTimes }

StampUID ==
  \E c \in DOMAIN LocalServers, m \in StampUidInputs :
    Install(uidCommand(Begin(c, m), c, WithPrefix(W, c, m)))
StampSJOIN ==
  \E c \in DOMAIN LocalServers, m \in StampSjoinInputs :
    Install(sjoinCommand(Begin(c, m), c, WithPrefix(W, c, m)))
StampJOIN ==
  \E c \in DOMAIN LocalServers, m \in StampJoinInputs :
    Install(joinCommand(Begin(c, m), c, WithPrefix(W, c, m)))
StampTMODE ==
  \E c \in DOMAIN LocalServers, m \in StampTmodeInputs :
    Install(tmodeCommand(Begin(c, m), c, WithPrefix(W, c, m)))
StampTB ==
  \E c \in DOMAIN LocalServers, m \in StampTbInputs :
    Install(tbCommand(Begin(c, m), c, WithPrefix(W, c, m)))
StampTOPIC ==
  \E c \in DOMAIN LocalServers, m \in StampTopicInputs, now \in Times :
    Install(topicCommand(Begin(c, m), c, WithPrefix(W, c, m), now))
StampPART ==
  \E c \in DOMAIN LocalServers, m \in StampPartInputs :
    Install(partCommand(Begin(c, m), c, WithPrefix(W, c, m)))
StampINVITE ==
  \E c \in DOMAIN LocalServers, m \in StampInviteInputs :
    Install(inviteCommand(Begin(c, m), c, WithPrefix(W, c, m)))

InitStamp == IsWorld(UsWithUser)

NextStamp ==
  \/ StampUID
  \/ StampSJOIN
  \/ StampJOIN
  \/ StampTMODE
  \/ StampTB
  \/ StampTOPIC
  \/ StampPART
  \/ StampINVITE

SpecStamp == InitStamp /\ [][NextStamp]_vars

\* The time stamp of the channel of the table under the name ch.
StampOf(chans, objs, ch) == objs[chans[ch]].TS

\* The step handles an SJOIN of a known server, or a JOIN of a known user, for
\* the channel ch with a time stamp that parses.
JoinsChannel(ch) ==
  /\ last'.c \in DOMAIN LocalServers
  /\ \/ /\ last'.m.Command = "SJOIN"
        /\ Len(last'.m.Params) >= 4
        /\ Has(Servers, WithPrefix(W, last'.c, last'.m).Prefix)
     \/ /\ last'.m.Command = "JOIN"
        /\ Len(last'.m.Params) >= 3
        /\ last'.m.Params[3] = "+"
        /\ Has(Users, WithPrefix(W, last'.c, last'.m).Prefix)
  /\ ParsesAsInt(last'.m.Params[1])
  /\ canonicalizeChannel(last'.m.Params[2]) = ch

\* C39 (invariants): while a channel is in the table its TS never increases;
\* after an SJOIN or a JOIN for it the TS is the minimum of the TS it had and
\* the TS of the message, and TMODE, TB, TOPIC, PART and INVITE leave the TS
\* as it was.
C39_ChannelTS ==
  [][\A ch \in DOMAIN Channels \cap DOMAIN Channels' :
       \E old \in {StampOf(Channels, ChanObjs, ch)} :
       \E new \in {StampOf(Channels', ChanObjs', ch)} :
         /\ new <= old
         /\ JoinsChannel(ch) => new = Min({old, ParseInt(last'.m.Params[1])})
         /\ last'.m.Command \in {"TMODE", "TB", "TOPIC", "PART", "INVITE"} => new = old
    ]_vars

\* A JOIN with the time stamp 40 came for the channel #a, which had a newer
\* one: its local member was told that the modes are cleared, and the
\* channel has the time stamp 40.
C39_Witness ==
  /\ last.m = Msg(uidQ, "JOIN", << "40", "#a", "+" >>)
  /\ Has(Channels, "#a")
  /\ StampOf(Channels, ChanObjs, "#a") = 40
  /\ uidQ \in ChanObjs[Channels["#a"]].Members
  /\ \E i \in DOMAIN out : out[i].to = 2 /\ out[i].msg.Command = "MODE"
-----------------------------------------------------------------------------
(* The write channel of a session: closed once, and nothing sent on it after
   the close (a send on a closed channel panics in Go).  Two peers are
   linked; either introduces users and a server under its own SID or another
   as prefix, sends PRIVMSG and NOTICE for the users and PING for the
   server, and a link is lost. *)

ClosedPrivmsgInputs ==
  { Msg(src, "PRIVMSG", << target, "hi" >>) :
      src \in {uidP, uidT}, target \in {uidP, uidT} }
  \cup { Msg("", "NOTICE", << target, "hi" >>) : target \in {uidP, uidT} }
ClosedPingInputs == { Msg("", "PING", << "x", "004" >>) }

ClosedPRIVMSG ==
  \E c \in DOMAIN LocalServers, m \in ClosedPrivmsgInputs :
    Install(privmsgCommand(Begin(c, m), c, WithPrefix(W, c, m)))
ClosedPING ==
  \E c \in DOMAIN LocalServers, m \in ClosedPingInputs :
    Install(pingCommand(Begin(c, m), c, WithPrefix(W, c, m)))

InitClosed == IsWorld(TwoPeers)

NextClosed ==
  \/ CrossUID
  \/ CrossSID
  \/ ClosedPRIVMSG
  \/ ClosedPING
  \/ DeadServer

SpecClosed == InitClosed /\ [][NextClosed]_vars

\* The step queues a message on the session c whose write channel was closed
\* in an earlier step, or after the ERROR with which this step closed it.
EnqueuedAfterClose(c) ==
  \/ /\ closed[c] > 0
     /\ \E i \in DOMAIN out' : out'[i].to = c
  \/ /\ closed'[c] > closed[c]
     /\ \E i, j \in DOMAIN out' :
          /\ i < j
          /\ out'[i].to = c
          /\ out'[j].to = c
          /\ out'[i].msg.Command = "ERROR"

\* No write channel is closed a second time.
ClosedOnce == \A c \in DOMAIN closed : closed[c] <= 1

\* C40 (safety): the write channel of a session is closed at most once, and
\* no step queues a message on a session after its write channel is closed.
C40_WriteChan ==
  []ClosedOnce /\ [][\A c \in DOMAIN closed : ~EnqueuedAfterClose(c)]_vars

\* What the code keeps: a write channel is closed at most once, a session
\* that quit is in none of the three maps so that a second quit does nothing,
\* and from a state in which every user and server is reached through the
\* link its home server or the server it is linked to is behind, no step
\* queues a message on a closed session.
QuitSessionsGone ==
  \A c \in DOMAIN closed :
    closed[c] > 0 =>
      ~Has(LocalClients, c) /\ ~Has(LocalUsers, c) /\ ~Has(LocalServers, c)
ClosedStaysClosed ==
  /\ []ClosedOnce
  /\ []QuitSessionsGone
  /\ [][ClosestIsLinked /\ HomeBehindClosest /\ LinkedBehindClosest
         => \A c \in DOMAIN closed : ~EnqueuedAfterClose(c)]_vars

\* The first peer introduced the user t with the SID of the second peer as
\* prefix and was lost; a PRIVMSG for t then came from the second peer and
\* was queued on the closed session of the first.
C40_Witness ==
  /\ closed[1] = 1
  /\ ~Has(LocalServers, 1)
  /\ last.c = 2
  /\ last.m.Command = "PRIVMSG"
  /\ \E i \in DOMAIN out : out[i].to = 1 /\ out[i].msg.Command = "PRIVMSG"
=============================================================================
